---- MODULE Spec2Model ----
(***************************************************************************)
(* A model of the differential-testing oracle of ticktock's integration    *)
(* suite (src/test/int_test.py): the structural result comparator          *)
(* Test.verify_json, the reference-side normalisation                      *)
(* Test.remove_empty_dps and the verdict bookkeeping of                    *)
(* Test.query_and_verify.                                                  *)
(*                                                                         *)
(* A response tree is a tagged record [k, v]: k is the Python type the     *)
(* isinstance() chain of verify_json sees, v the payload.                  *)
(*   "list"  v is a sequence of trees                                      *)
(*   "dict"  v is a function from key text to trees                        *)
(*   "float" v is <<hi, lo>>, a fixed-point number worth hi*Base + lo      *)
(*           units of 1e-13 with 0 <= lo < Base                            *)
(*   "int"   v is an integer                                               *)
(*   "str"   v is the text (str and unicode are one type to the code)      *)
(*   "null"  None, the one type outside the isinstance() chain             *)
(* Key and string text is ASCII, as in every response of the two backends. *)
(*                                                                         *)
(* Further parts of the suite have specifications of their own, each over  *)
(* its own variables with the others at rest:                              *)
(*   SpecRunner   scenarios under TestRunner.__call__ querying the two     *)
(*                live backends                                            *)
(*   SpecGen      one DataPoints object: __init__, then add_dp             *)
(*   SpecRepro    two runs of the suite, each seeding its random stream    *)
(*   SpecThreads  the threads of Multi_Thread_Tests drawing from the one   *)
(*                stream                                                   *)
(*   SpecQuery    one Query object: __init__, to_json, to_params           *)
(*   SpecVerdicts the threads of Multi_Thread_Tests counting their         *)
(*                verdicts in the scenario's two counters                  *)
(*   SpecSubs     Query_Tests.test_once running its sub-scenarios          *)
(*   SpecScraper  src/tools/prom_scraper.py: scrape_loop and TickTock.send *)
(***************************************************************************)
EXTENDS Integers, Sequences, FiniteSets, TLC

VARIABLES
    expected,   \* response of the reference backend (query_opentsdb)
    actual,     \* response of the system under test (query_ticktock)
    verbose,    \* self._options.verbose
    expected2,  \* local expected2 of query_and_verify
    result,     \* what the last verify_json call returned
    out,        \* number of lines written to stdout
    passed,     \* self._passed
    failed,     \* self._failed
    pc,         \* "idle", "verified", "done", "raised"; "cleanup",
                \* "running", "finished" and "aborted" under TestRunner;
                \* "threads" in Multi_Thread_Tests, "sub" in test_once
    ref_status, \* how the reference backend answered the last query
    tt_status,  \* how the system under test answered the last query
    queries,    \* calls of query_and_verify the running scenario has made
    run_passed, \* local passed of TestRunner.__call__
    run_failed, \* local failed of TestRunner.__call__
    tests_done, \* scenarios TestRunner.__call__ has been through
    tests,      \* the scenarios that were called, with their counters
    rng,        \* state of the shared random stream (module random)
    params,     \* arguments of the call DataPoints(...)
    self_dps,   \* DataPoints._dps
    self_start, \* DataPoints._start
    self_end,   \* DataPoints._end
    gen_pc,     \* "new", "built" or "raised": how far DataPoints(...) got
    adds,       \* calls of add_dp so far
    calls,      \* the generator calls a suite run makes, in order
    runs,       \* two runs of the suite: stream and fixtures of each
    threads,    \* locals of DataPoints.__init__ in each thread
    args,       \* arguments of the call Query(...)
    query,      \* the Query object
    json_out,   \* what query.to_json() returned
    params_out, \* what query.to_params() returned
    workers,    \* thread_target in each thread of Multi_Thread_Tests
    returned,   \* calls of query_and_verify that returned
    joined,     \* the threads have been joined
    subs,       \* the sub-scenarios test_once has run, with their counters
    qt_passed,  \* Query_Tests._passed
    qt_failed,  \* Query_Tests._failed
    sub_queries,\* query_and_verify calls of the running sub-scenario
    sc_pc,      \* "loop", "stopped" or "crashed": where scrape_loop is
    scrape_now, \* local now of scrape_loop, in scrape intervals
    target,     \* the target scrape is about to get
    histo_sum,  \* TickTock._histo_sum
    sum_,       \* TickTock._sum, as (key, value) pairs
    count_,     \* TickTock._count, as (key, value) pairs
    text,       \* response.text of the last scrape, line by line
    sent,       \* the puts of the last send
    unrecognized \* lines the last send reported as unrecognized

cmp_vars == <<expected, actual, verbose, expected2, result, out, passed, failed, pc>>
run_vars == <<ref_status, tt_status, queries, run_passed, run_failed, tests_done, tests>>
gen_vars == <<rng, params, self_dps, self_start, self_end, gen_pc, adds>>
suite_vars == <<calls, runs, threads>>
query_vars == <<args, query, json_out, params_out>>
mt_vars == <<workers, returned, joined>>
qt_vars == <<subs, qt_passed, qt_failed, sub_queries>>
sc_vars == <<sc_pc, scrape_now, target, histo_sum, sum_, count_, text, sent, unrecognized>>

vars ==
    <<expected, actual, verbose, expected2, result, out, passed, failed, pc,
      ref_status, tt_status, queries, run_passed, run_failed, tests_done, tests,
      rng, params, self_dps, self_start, self_end, gen_pc, adds,
      calls, runs, threads, args, query, json_out, params_out,
      workers, returned, joined,
      subs, qt_passed, qt_failed, sub_queries,
      sc_pc, scrape_now, target, histo_sum, sum_, count_, text, sent, unrecognized>>

\* TestRunner is not running
RunnerIdle ==
    /\ ref_status = "none"
    /\ tt_status = "none"
    /\ queries = 0
    /\ run_passed = 0
    /\ run_failed = 0
    /\ tests_done = 0
    /\ tests = <<>>

\* no DataPoints object is being made
GeneratorIdle ==
    /\ rng = 0
    /\ params = <<>>
    /\ self_dps = <<>>
    /\ self_start = 0
    /\ self_end = 0
    /\ gen_pc = "none"
    /\ adds = 0

\* no suite is running
SuitesIdle ==
    /\ calls = <<>>
    /\ runs = <<>>
    /\ threads = <<>>

\* no Query object is being made
QueryIdle ==
    /\ args = <<>>
    /\ query = <<>>
    /\ json_out = <<>>
    /\ params_out = <<>>

\* Multi_Thread_Tests has no thread running
WorkersIdle ==
    /\ workers = <<>>
    /\ returned = 0
    /\ joined = FALSE

\* Query_Tests is not running
QueryTestsIdle ==
    /\ subs = <<>>
    /\ qt_passed = 0
    /\ qt_failed = 0
    /\ sub_queries = 0

\* prom_scraper is not running
ScraperIdle ==
    /\ sc_pc = "none"
    /\ scrape_now = 0
    /\ target = 0
    /\ histo_sum = {}
    /\ sum_ = {}
    /\ count_ = {}
    /\ text = <<>>
    /\ sent = <<>>
    /\ unrecognized = 0

----------------------------------------------------------------------------
(* Response trees *)

PyList(s) == [k |-> "list", v |-> s]
PyDict(f) == [k |-> "dict", v |-> f]
PyFloat(hi, lo) == [k |-> "float", v |-> <<hi, lo>>]
PyInt(n) == [k |-> "int", v |-> n]
PyStr(s) == [k |-> "str", v |-> s]
PyNone == [k |-> "null", v |-> 0]

(* Fixed-point floats: one unit is 1e-13, a limb holds 8 decimal digits. *)
Base == 10 ^ 8
One == 10 ^ 5               \* hi limb of 1.0
Milli == 10 ^ 2             \* hi limb of 0.001
TolLo == 1200               \* 0.00000000012 in units of 1e-13
Tolerance == <<0, TolLo>>

\* abs(x - y) of two fixed-point numbers, as a normalised <<hi, lo>>
AbsDiff(x, y) ==
    LET dh == x[1] - y[1]
        dl == x[2] - y[2]
        neg == dh < 0 \/ (dh = 0 /\ dl < 0)
        h == IF neg THEN -dh ELSE dh
        l == IF neg THEN -dl ELSE dl
    IN  IF l < 0 THEN <<h - 1, l + Base>> ELSE <<h, l>>

Greater(x, y) == x[1] > y[1] \/ (x[1] = y[1] /\ x[2] > y[2])

----------------------------------------------------------------------------
(* Python built-ins the comparator uses *)

\* str(k) of a key: ASCII text converts to the same text
str(key) == key

\* d.has_key(key)
has_key(d, key) == key \in DOMAIN d.v

\* the order in which d.items() yields the keys of d: fixed for a given
\* dictionary; the model takes the order of KeyOrder
KeyOrder == <<"dps", "metric", "a", "b", "1">>
items(d) == SelectSeq(KeyOrder, LAMBDA key : key \in DOMAIN d.v)

\* len(x) is defined for lists, dicts and strings; TypeError otherwise
HasLen(x) == x.k \in {"list", "dict", "str"}
LenIsZero(x) ==
    CASE x.k = "list" -> Len(x.v) = 0
      [] x.k = "dict" -> DOMAIN x.v = {}
      [] x.k = "str"  -> x.v = ""

\* a verdict together with the number of lines printed on the way to it
R(ok, lines) == [ok |-> ok, out |-> lines]
Line(cond) == IF cond THEN 1 ELSE 0

----------------------------------------------------------------------------
(* Test.remove_empty_dps *)

\* len(dps) raises TypeError when dps has no length
remove_empty_dps_raises(arr) ==
    /\ arr.k = "list"
    /\ \E i \in 1..Len(arr.v) :
          /\ arr.v[i].k = "dict"
          /\ has_key(arr.v[i], "dps")
          /\ ~HasLen(arr.v[i].v["dps"])

\* keeps_series without the test of len(dps)
keeps_series_any(d) ==
    /\ d.k = "dict"
    /\ has_key(d, "dps")

\* the test under which the loop appends d to result
keeps_series(d) ==
    /\ d.k = "dict"
    /\ has_key(d, "dps")
    /\ ~LenIsZero(d.v["dps"])

remove_empty_dps(arr) ==
    IF arr.k = "list" THEN PyList(SelectSeq(arr.v, keeps_series))
    ELSE PyList(<<>>)

----------------------------------------------------------------------------
(* Test.verify_json *)

RECURSIVE verify_json(_, _, _)
RECURSIVE first_match(_, _, _, _, _)
RECURSIVE all_match(_, _, _, _)
RECURSIVE all_keys(_, _, _, _, _)

\* empty_actual without the allowance for one zero-point series
empty_actual_strict(exp) == Len(exp.v) = 0

\* the special case of an empty actual list
empty_actual(exp) ==
    \/ Len(exp.v) = 0
    \/ /\ Len(exp.v) = 1
       /\ exp.v[1].k = "dict"
       /\ has_key(exp.v[1], "dps")
       /\ exp.v[1].v["dps"].k = "dict"
       /\ DOMAIN exp.v[1].v["dps"].v = {}

\* first_match with the inner loop starting at the second element
first_match_skip_first(x, ys, j, second, vb) ==
    IF j = 1 THEN first_match(x, ys, 2, second, vb)
    ELSE IF j > Len(ys) THEN R(FALSE, 0)
    ELSE LET r == IF second THEN verify_json(ys[j], x, vb)
                  ELSE verify_json(x, ys[j], vb)
         IN  IF r.ok THEN R(TRUE, r.out)
             ELSE LET rest == first_match(x, ys, j + 1, second, vb)
                  IN  R(rest.ok, r.out + Line(vb /\ ~second) + rest.out)

\* the inner loop over j: x is expected[i] in the first pass and actual[i]
\* in the second, ys the other list; expected stays the left operand
first_match(x, ys, j, second, vb) ==
    IF j > Len(ys) THEN R(FALSE, 0)
    ELSE LET r == IF second THEN verify_json(ys[j], x, vb)
                  ELSE verify_json(x, ys[j], vb)
         IN  IF r.ok THEN R(TRUE, r.out)
             ELSE LET rest == first_match(x, ys, j + 1, second, vb)
                  IN  R(rest.ok, r.out + Line(vb /\ ~second) + rest.out)

\* all_match comparing the elements pairwise, in list order
all_match_paired(xs, ys, second, vb) ==
    IF xs = <<>> THEN R(TRUE, 0)
    ELSE LET r == IF second THEN verify_json(Head(ys), Head(xs), vb)
                  ELSE verify_json(Head(xs), Head(ys), vb)
         IN  IF ~r.ok THEN R(FALSE, r.out + Line(vb))
             ELSE LET rest == all_match(Tail(xs), Tail(ys), second, vb)
                  IN  R(rest.ok, r.out + rest.out)

\* the outer loop over i, from element i on
all_match(xs, ys, second, vb) ==
    IF xs = <<>> THEN R(TRUE, 0)
    ELSE LET m == first_match(Head(xs), ys, 1, second, vb)
         IN  IF ~m.ok THEN R(FALSE, m.out + Line(vb))
             ELSE LET rest == all_match(Tail(xs), ys, second, vb)
                  IN  R(rest.ok, m.out + rest.out)

\* verify_list without the second pass
verify_list_one_pass(exp, act, vb) ==
    IF act.k # "list" THEN R(FALSE, Line(vb))
    ELSE IF Len(act.v) = 0 THEN R(empty_actual(exp), 0)
    ELSE IF Len(exp.v) # Len(act.v) THEN R(FALSE, Line(vb))
    ELSE all_match(exp.v, act.v, FALSE, vb)

verify_list(exp, act, vb) ==
    IF act.k # "list" THEN R(FALSE, Line(vb))
    ELSE IF Len(act.v) = 0 THEN R(empty_actual(exp), 0)
    ELSE IF Len(exp.v) # Len(act.v) THEN R(FALSE, Line(vb))
    ELSE LET p1 == all_match(exp.v, act.v, FALSE, vb)
         IN  IF ~p1.ok THEN p1
             ELSE LET p2 == all_match(act.v, exp.v, TRUE, vb)
                  IN  R(p2.ok, p1.out + p2.out)

\* all_keys returning after the first item
all_keys_first_only(x, y, keys, second, vb) ==
    IF keys = <<>> THEN R(TRUE, 0)
    ELSE IF ~has_key(y, str(Head(keys))) THEN R(FALSE, Line(vb))
    ELSE LET r == verify_json(x.v[Head(keys)], y.v[str(Head(keys))], vb)
         IN  IF ~r.ok THEN R(FALSE, r.out + Line(vb /\ ~second))
             ELSE R(TRUE, r.out)

\* one loop over the items of mapping x, looking each key up in mapping y;
\* the first loop (x = expected) reports a differing value, the second
\* (x = actual) does not
all_keys(x, y, keys, second, vb) ==
    IF keys = <<>> THEN R(TRUE, 0)
    ELSE IF ~has_key(y, str(Head(keys))) THEN R(FALSE, Line(vb))
    ELSE LET r == verify_json(x.v[Head(keys)], y.v[str(Head(keys))], vb)
         IN  IF ~r.ok THEN R(FALSE, r.out + Line(vb /\ ~second))
             ELSE LET rest == all_keys(x, y, Tail(keys), second, vb)
                  IN  R(rest.ok, r.out + rest.out)

verify_dict(exp, act, vb) ==
    IF act.k # "dict" THEN R(FALSE, Line(vb))
    ELSE IF Cardinality(DOMAIN exp.v) # Cardinality(DOMAIN act.v)
         THEN R(FALSE, Line(vb))
    ELSE IF DOMAIN exp.v = {} \/ DOMAIN act.v = {} THEN R(TRUE, 0)
    ELSE LET p1 == all_keys(exp, act, items(exp), FALSE, vb)
         IN  IF ~p1.ok THEN p1
             ELSE LET p2 == all_keys(act, exp, items(act), TRUE, vb)
                  IN  R(p2.ok, p1.out + p2.out)

\* verify_float rejecting the boundary: diff >= 0.00000000012
verify_float_strict(exp, act, vb) ==
    IF act.k # "float" THEN R(FALSE, 1)
    ELSE LET diff == AbsDiff(exp.v, act.v)
         IN  IF Greater(diff, Tolerance) \/ diff = Tolerance
             THEN R(FALSE, Line(Greater(<<Milli, 0>>, diff)))
             ELSE R(TRUE, 0)

verify_float(exp, act, vb) ==
    IF act.k # "float" THEN R(FALSE, 1)
    ELSE LET diff == AbsDiff(exp.v, act.v)
         IN  IF Greater(diff, Tolerance)
             THEN R(FALSE, Line(Greater(<<Milli, 0>>, diff)))
             ELSE R(TRUE, 0)

\* verify_int with > in place of !=
verify_int_gt(exp, act, vb) ==
    IF act.k # "int" THEN R(FALSE, Line(vb))
    ELSE IF exp.v > act.v THEN R(FALSE, Line(vb))
    ELSE R(TRUE, 0)

\* verify_int accepting a float of the same numeric value
verify_int_coerce(exp, act, vb) ==
    IF act.k = "float" THEN R(act.v = <<exp.v * One, 0>>, 0)
    ELSE IF act.k # "int" THEN R(FALSE, Line(vb))
    ELSE IF exp.v # act.v THEN R(FALSE, Line(vb))
    ELSE R(TRUE, 0)

verify_int(exp, act, vb) ==
    IF act.k # "int" THEN R(FALSE, Line(vb))
    ELSE IF exp.v # act.v THEN R(FALSE, Line(vb))
    ELSE R(TRUE, 0)

\* verify_str with the return of the mismatch branch under the verbose test
verify_str_quiet(exp, act, vb) ==
    IF act.k # "str" THEN R(FALSE, Line(vb))
    ELSE IF exp.v # act.v /\ vb THEN R(FALSE, 1)
    ELSE R(TRUE, 0)

verify_str(exp, act, vb) ==
    IF act.k # "str" THEN R(FALSE, Line(vb))
    ELSE IF exp.v # act.v THEN R(FALSE, Line(vb))
    ELSE R(TRUE, 0)

\* the final else: a type outside the isinstance chain
verify_other(exp, act, vb) == R(FALSE, 1)

verify_json(exp, act, vb) ==
    CASE exp.k = "list"  -> verify_list(exp, act, vb)
      [] exp.k = "dict"  -> verify_dict(exp, act, vb)
      [] exp.k = "float" -> verify_float(exp, act, vb)
      [] exp.k = "int"   -> verify_int(exp, act, vb)
      [] exp.k = "str"   -> verify_str(exp, act, vb)
      [] OTHER                -> verify_other(exp, act, vb)

----------------------------------------------------------------------------
(* The responses the two backends may give *)

MaxLen == 3         \* longest list of integer leaves
MaxSeries == 2      \* most series in a query response
MaxMixed == 2       \* longest list of leaves of mixed types

SeqsOf(S, n) == UNION {[1..m -> S] : m \in 0..n}
MapsOf(S, K) == UNION {[D -> S] : D \in SUBSET K}

IntLeaves == {PyInt(n) : n \in {1, 2}}
FloatLeaves ==
    {PyFloat(h, l) : h \in {0, 1, One, One + Milli},
                     l \in {0, 1, TolLo, TolLo + 1, Base - 1}}
StrLeaves == {PyStr(s) : s \in {"", "a", "b"}}
Scalars == IntLeaves \cup FloatLeaves \cup StrLeaves \cup {PyNone}

IntLists == {PyList(s) : s \in SeqsOf(IntLeaves, MaxLen)}

Atoms == {PyInt(1), PyFloat(One, 0), PyFloat(One, TolLo), PyStr("a"), PyNone}
MixedLists == {PyList(s) : s \in SeqsOf(Atoms, MaxMixed)}

\* a series object of a query response: {"metric": ..., "dps": {timestamp: value}}
NoDps == PyDict(<<>>)
SomeDps == PyDict([x \in {"1"} |-> PyFloat(One, 0)])
Series ==
    {PyDict([dps |-> d]) : d \in {NoDps, SomeDps}}
        \cup {PyDict([metric |-> PyStr("a"), dps |-> d]) : d \in {NoDps, SomeDps}}
ZeroSeries == PyDict([dps |-> NoDps])
SeriesLists == {PyList(s) : s \in SeqsOf(Series, MaxSeries)}

\* malformed series: dps of another type, or no dps at all
OddSeries ==
    {PyDict([dps |-> d]) : d \in {PyNone, PyInt(1), PyStr(""), PyList(<<>>)}}
        \cup {PyDict([metric |-> PyStr("a")])}
OddLists ==
    {PyList(<<o>>) : o \in OddSeries}
        \cup {PyList(<<PyDict([dps |-> SomeDps]), o>>) : o \in OddSeries}

\* mappings and lists that nest lists
Nestable == {PyInt(1), PyInt(2), PyList(<<>>), PyList(<<ZeroSeries>>)}
Maps == {PyDict(f) : f \in MapsOf(Nestable, {"a", "b"})}
Nested == {PyList(<<x>>) : x \in Nestable \cup {PyNone, PyDict(<<>>)}}

\* lists of two elements that are lists of two themselves, bare or under a key
DeepLists ==
    LET pairs == {PyList(<<PyInt(1), PyInt(n)>>) : n \in {1, 2}}
                    \cup {PyList(<<PyInt(2), PyInt(1)>>)}
        inner == pairs \cup {PyDict([a |-> PyList(<<PyInt(m), PyInt(3 - m)>>)]) :
                                m \in {1, 2}}
    IN  {PyList(<<x, y>>) : x, y \in inner}

Responses ==
    Scalars \cup IntLists \cup MixedLists \cup Series \cup SeriesLists \cup OddLists
        \cup Maps \cup Nested \cup DeepLists

----------------------------------------------------------------------------
(* The state machine: one comparison of one pair of responses *)

Init ==
    /\ expected \in Responses
    /\ actual \in Responses
    /\ verbose \in BOOLEAN
    /\ expected2 = PyNone
    /\ result = FALSE
    /\ out = 0
    /\ passed = 0
    /\ failed = 0
    /\ pc = "idle"
    /\ RunnerIdle
    /\ GeneratorIdle
    /\ SuitesIdle
    /\ QueryIdle
    /\ WorkersIdle
    /\ QueryTestsIdle
    /\ ScraperIdle

\* a direct call self.verify_json(expected, actual)
VerifyJson ==
    /\ pc = "idle"
    /\ LET r == verify_json(expected, actual, verbose)
       IN  /\ result' = r.ok
           /\ out' = out + r.out
    /\ pc' = "verified"
    /\ UNCHANGED <<expected, actual, verbose, expected2, passed, failed>>
    /\ UNCHANGED <<run_vars, gen_vars, suite_vars, query_vars, mt_vars, qt_vars, sc_vars>>

\* Test.query_and_verify, from the two responses on
QueryAndVerify ==
    /\ pc = "idle"
    /\ IF remove_empty_dps_raises(expected)
       THEN /\ pc' = "raised"
            /\ out' = out + Line(verbose)
            /\ UNCHANGED <<expected2, result, passed, failed>>
       ELSE LET e2 == remove_empty_dps(expected)
                r == verify_json(e2, actual, verbose)
            IN  /\ expected2' = e2
                /\ result' = r.ok
                /\ passed' = passed + Line(r.ok)
                /\ failed' = failed + Line(~r.ok)
                /\ out' = out + Line(verbose) + r.out + Line(~r.ok)
                /\ pc' = "done"
    /\ UNCHANGED <<expected, actual, verbose>>
    /\ UNCHANGED <<run_vars, gen_vars, suite_vars, query_vars, mt_vars, qt_vars, sc_vars>>

Next == VerifyJson \/ QueryAndVerify

Spec == Init /\ [][Next]_vars

----------------------------------------------------------------------------
(* Vocabulary of the properties *)

\* verify_json(x, y) with x as the expected operand, diagnostics off
Same(x, y) == verify_json(x, y, FALSE).ok

\* a series with no data points: a mapping whose dps is an empty mapping
ZeroPoint(d) ==
    /\ d.k = "dict"
    /\ "dps" \in DOMAIN d.v
    /\ d.v["dps"] = PyDict(<<>>)

RECURSIVE HasNull(_)
HasNull(t) ==
    CASE t.k = "null" -> TRUE
      [] t.k = "list" -> \E i \in 1..Len(t.v) : HasNull(t.v[i])
      [] t.k = "dict" -> \E key \in DOMAIN t.v : HasNull(t.v[key])
      [] OTHER -> FALSE

\* some list inside t consists of exactly one zero-point series
RECURSIVE HasLoneZero(_)
HasLoneZero(t) ==
    CASE t.k = "list" ->
            \/ Len(t.v) = 1 /\ ZeroPoint(t.v[1])
            \/ \E i \in 1..Len(t.v) : HasLoneZero(t.v[i])
      [] t.k = "dict" -> \E key \in DOMAIN t.v : HasLoneZero(t.v[key])
      [] OTHER -> FALSE

NonEmptyList(t) == t.k = "list" /\ Len(t.v) > 0

----------------------------------------------------------------------------
\* C1 (as stated): verify_json(a, b) and verify_json(b, a) return the same
\* boolean for all response trees a and b.
C1_Symmetry ==
    pc = "verified" => result = verify_json(actual, expected, verbose).ok

\* C1 (amended): verify_json(a, b) = verify_json(b, a) for all response
\* trees a and b in which no list consists of exactly one zero-point series.
C1_SymmetryWithoutLoneZero ==
    (pc = "verified" /\ ~HasLoneZero(expected) /\ ~HasLoneZero(actual))
        => result = verify_json(actual, expected, verbose).ok

\* two different lists, one a reordering of the other, were compared
C1_Witness ==
    /\ pc = "verified"
    /\ NonEmptyList(expected) /\ NonEmptyList(actual)
    /\ expected # actual
    /\ ~HasLoneZero(expected) /\ ~HasLoneZero(actual)
    /\ result = TRUE

\* C2 (as stated): verify_json(a, a) is true for every response tree a,
\* null leaves included.
C2_Reflexivity ==
    (pc = "verified" /\ expected = actual) => result = TRUE

\* C2 (amended): verify_json(a, a) is true for every response tree a built
\* from lists, mappings, floats, integers and strings, with no null node.
C2_ReflexivityWithoutNull ==
    (pc = "verified" /\ expected = actual /\ ~HasNull(expected))
        => result = TRUE

\* a non-empty list of series was compared with itself
C2_Witness ==
    /\ pc = "verified"
    /\ expected = actual
    /\ expected.k = "list" /\ Len(expected.v) > 1
    /\ expected.v[1].k = "dict"
    /\ result = TRUE

\* a one-to-one pairing of the elements of xs with equivalent elements of ys
Pairings(n) == {p \in [1..n -> 1..n] : \A i, j \in 1..n : p[i] = p[j] => i = j}
EqualAsMultisets(xs, ys) ==
    /\ Len(xs) = Len(ys)
    /\ \E p \in Pairings(Len(xs)) : \A i \in 1..Len(xs) : Same(xs[i], ys[p[i]])

\* C3 (as stated): two non-empty lists compare equal exactly when they are
\* equal as multisets under element equivalence: same length and every
\* element occurring the same number of times on both sides.
C3_MultisetEquality ==
    (pc = "verified" /\ NonEmptyList(expected) /\ NonEmptyList(actual))
        => (result <=> EqualAsMultisets(expected.v, actual.v))

\* C3 (amended): two non-empty lists compare equal exactly when they have
\* the same length, every expected element is equivalent to some actual
\* element and every actual element to some expected element; the number
\* of occurrences is not compared.
C3_MutualCoverage ==
    (pc = "verified" /\ NonEmptyList(expected) /\ NonEmptyList(actual))
        => (result <=>
                /\ Len(expected.v) = Len(actual.v)
                /\ \A i \in 1..Len(expected.v) :
                      \E j \in 1..Len(actual.v) : Same(expected.v[i], actual.v[j])
                /\ \A j \in 1..Len(actual.v) :
                      \E i \in 1..Len(expected.v) : Same(expected.v[i], actual.v[j]))

\* two lists that cover each other with different multiplicities were accepted
C3_Witness ==
    /\ pc = "verified"
    /\ NonEmptyList(expected) /\ NonEmptyList(actual)
    /\ ~EqualAsMultisets(expected.v, actual.v)
    /\ result = TRUE

\* a list of series objects, each with a dps mapping
IsSeriesList(t) ==
    /\ t.k = "list"
    /\ \A i \in 1..Len(t.v) :
          /\ t.v[i].k = "dict"
          /\ "dps" \in DOMAIN t.v[i].v
          /\ t.v[i].v["dps"].k = "dict"

\* C4: with a reference response that is a list of series and an empty
\* actual response, query_and_verify passes exactly when every reference
\* series has zero data points, however many there are.
C4_EmptySeriesNormalization ==
    (pc = "done" /\ IsSeriesList(expected) /\ actual = PyList(<<>>))
        => /\ result <=> \A i \in 1..Len(expected.v) : ZeroPoint(expected.v[i])
           /\ passed = (IF result THEN 1 ELSE 0)
           /\ failed = (IF result THEN 0 ELSE 1)

\* a reference response of several zero-point series passed against []
C4_Witness ==
    /\ pc = "done"
    /\ IsSeriesList(expected) /\ Len(expected.v) > 1
    /\ \A i \in 1..Len(expected.v) : ZeroPoint(expected.v[i])
    /\ actual = PyList(<<>>)
    /\ passed = 1

\* C5 (as stated): with an empty expected list verify_json succeeds when the
\* actual list is empty and also when it holds only zero-point series.
C5_EmptyExpected ==
    (/\ pc = "verified"
     /\ expected = PyList(<<>>)
     /\ actual.k = "list"
     /\ \A i \in 1..Len(actual.v) : ZeroPoint(actual.v[i]))
        => result = TRUE

\* C5 (amended): an empty expected list is matched by an empty actual list
\* only; the allowance runs the other way: an empty actual list is matched
\* by an empty expected list and by an expected list of exactly one
\* zero-point series.
C5_EmptyActual ==
    (pc = "verified" /\ expected.k = "list" /\ actual.k = "list")
        => /\ expected = PyList(<<>>) => (result <=> actual = PyList(<<>>))
           /\ actual = PyList(<<>>) =>
                (result <=> \/ expected = PyList(<<>>)
                            \/ Len(expected.v) = 1 /\ ZeroPoint(expected.v[1]))

\* one zero-point series was accepted against an empty actual list
C5_Witness ==
    /\ pc = "verified"
    /\ actual = PyList(<<>>)
    /\ expected.k = "list" /\ Len(expected.v) = 1 /\ ZeroPoint(expected.v[1])
    /\ result = TRUE

\* C6 (as stated): two mappings compare equal exactly when they have the
\* same key set and, for every key, verify_json(expected value, actual
\* value) is true.
C6_MappingEquivalence ==
    (pc = "verified" /\ expected.k = "dict" /\ actual.k = "dict")
        => (result <=>
                /\ DOMAIN expected.v = DOMAIN actual.v
                /\ \A key \in DOMAIN expected.v :
                      Same(expected.v[key], actual.v[key]))

\* C6 (amended): two mappings compare equal exactly when they have the same
\* key set and, for every key, the two values are equivalent in both
\* operand orders.
C6_MappingEquivalenceBothWays ==
    (pc = "verified" /\ expected.k = "dict" /\ actual.k = "dict")
        => (result <=>
                /\ DOMAIN expected.v = DOMAIN actual.v
                /\ \A key \in DOMAIN expected.v :
                      /\ Same(expected.v[key], actual.v[key])
                      /\ Same(actual.v[key], expected.v[key]))

\* two mappings with the same two keys and different values were rejected
C6_Witness ==
    /\ pc = "verified"
    /\ expected.k = "dict" /\ actual.k = "dict"
    /\ DOMAIN expected.v = DOMAIN actual.v
    /\ Cardinality(DOMAIN expected.v) = 2
    /\ \E key \in DOMAIN expected.v : Same(expected.v[key], actual.v[key])
    /\ result = FALSE

\* x + d units, for a fixed-point number x and -Base < d < Base
Shift(x, d) ==
    LET l == x[2] + d
    IN  IF l < 0 THEN <<x[1] - 1, l + Base>>
        ELSE IF l >= Base THEN <<x[1] + 1, l - Base>>
        ELSE <<x[1], l>>

\* C7: two floats are equivalent exactly when they differ by at most
\* 0.00000000012, the boundary included; 1.0 and 1.0 + 1e-13 are
\* equivalent, 1.0 and 1.0 + 1e-3 are not.
C7_FloatTolerance ==
    (pc = "verified" /\ expected.k = "float" /\ actual.k = "float")
        => /\ result <=> \E d \in -TolLo..TolLo : actual.v = Shift(expected.v, d)
           /\ (expected.v = <<One, 0>> /\ actual.v = <<One, 1>>) => result = TRUE
           /\ (expected.v = <<One, 0>> /\ actual.v = <<One + Milli, 0>>)
                => result = FALSE

\* two floats exactly 0.00000000012 apart were accepted
C7_Witness ==
    /\ pc = "verified"
    /\ expected.k = "float" /\ actual.k = "float"
    /\ actual.v = Shift(expected.v, TolLo)
    /\ result = TRUE

ComparedTypes == {"list", "dict", "float", "int", "str"}

\* C8: operands of different types never compare equal; an integer is
\* never accepted against a float, in either order.
C8_NoCoercion ==
    (/\ pc = "verified"
     /\ expected.k \in ComparedTypes /\ actual.k \in ComparedTypes
     /\ expected.k # actual.k)
        => result = FALSE

\* the integer 1 was compared with the float 1.0
C8_Witness ==
    /\ pc = "verified"
    /\ expected = PyInt(1)
    /\ actual = PyFloat(One, 0)
    /\ result = FALSE

\* C9 (as stated): remove_empty_dps followed by verify_json always ends
\* with a boolean verdict, also for a dps entry that is not a mapping.
C9_NeverRaises == pc # "raised"

\* C10: verify_json changes neither its operands nor the counters, and
\* returns the same boolean with diagnostics on and off.
C10_NoSideEffects ==
    [][(pc = "idle" /\ pc' = "verified")
        => /\ expected' = expected
           /\ actual' = actual
           /\ passed' = passed
           /\ failed' = failed
           /\ result' = verify_json(expected, actual, ~verbose).ok]_vars

\* a comparison with diagnostics on printed something and failed
C10_Witness ==
    /\ pc = "verified"
    /\ verbose = TRUE
    /\ out > 1
    /\ result = FALSE

----------------------------------------------------------------------------
(* The scenarios under TestRunner: queries against the two live backends *)

MaxQueries == 2     \* most queries one scenario makes
MaxTests == 2       \* scenarios in the list given to TestRunner

\* what requests makes of a backend: a 2xx answer with a body, an answer with
\* an error status, or no answer at all (refused, timed out)
Statuses == {"ok", "http_error", "unreachable"}

\* the bodies of the 2xx answers
Bodies ==
    {PyList(<<>>), PyList(<<ZeroSeries>>), PyList(<<PyDict([dps |-> SomeDps])>>),
     PyList(<<PyDict([dps |-> PyNone])>>)}

\* the outcome of a call: the exception left it, or it returned value
Raised == [raised |-> TRUE, value |-> PyNone, out |-> 0]
Returned(x, lines) == [raised |-> FALSE, value |-> x, out |-> lines]

\* Test.query_opentsdb
query_opentsdb(st, body, vb) ==
    CASE st = "unreachable" -> Raised
      [] st = "http_error"  -> Returned(PyList(<<>>), Line(vb))
      [] OTHER              -> Returned(body, Line(vb))

\* Test.query_ticktock, for either options.method
query_ticktock_lenient(st, body, vb) ==
    IF st = "ok" THEN Returned(body, Line(vb)) ELSE Returned(PyList(<<>>), Line(vb))

query_ticktock(st, body, vb) ==
    IF st = "ok" THEN Returned(body, Line(vb)) ELSE Raised

InitRunner ==
    /\ expected = PyNone
    /\ actual = PyNone
    /\ verbose \in BOOLEAN
    /\ expected2 = PyNone
    /\ result = FALSE
    /\ out = 0
    /\ passed = 0
    /\ failed = 0
    /\ pc = "cleanup"
    /\ RunnerIdle
    /\ GeneratorIdle
    /\ SuitesIdle
    /\ QueryIdle
    /\ WorkersIdle
    /\ QueryTestsIdle
    /\ ScraperIdle

\* Test.cleanup raises when shutil.rmtree or os.mkdir does
CleanupOutcomes == {"done", "raised"}

\* TestRunner.__call__ from the head of its loop to the call test(): the
\* name of the scenario, then test.cleanup(), which is outside the try
Cleanup ==
    /\ pc = "cleanup"
    /\ \E c \in CleanupOutcomes :
        pc' = IF c = "raised" THEN "aborted" ELSE "running"
    /\ out' = out + 2
    /\ UNCHANGED <<expected, actual, verbose, expected2, result, passed, failed>>
    /\ UNCHANGED <<run_vars, gen_vars, suite_vars, query_vars, mt_vars, qt_vars, sc_vars>>

\* one call of Test.query_and_verify by the running scenario; an exception
\* leaves test() at once and lands in the handler of TestRunner.__call__
ScenarioQuery ==
    /\ pc = "running"
    /\ queries < MaxQueries
    /\ \E rs \in Statuses, ts \in Statuses, rb \in Bodies, tb \in Bodies :
        LET e == query_opentsdb(rs, rb, verbose)
            a == query_ticktock(ts, tb, verbose)
            said == Line(verbose) + e.out + (IF e.raised THEN 0 ELSE a.out)
        IN  /\ ref_status' = rs
            /\ tt_status' = IF e.raised THEN "none" ELSE ts
            /\ expected' = IF e.raised THEN expected ELSE e.value
            /\ actual' = IF e.raised \/ a.raised THEN actual ELSE a.value
            /\ IF e.raised \/ a.raised \/ remove_empty_dps_raises(e.value)
               THEN /\ failed' = failed + 1
                    /\ out' = out + said + 1
                    /\ pc' = "raised"
                    /\ UNCHANGED <<expected2, result, passed>>
               ELSE LET e2 == remove_empty_dps(e.value)
                        r == verify_json(e2, a.value, verbose)
                    IN  /\ expected2' = e2
                        /\ result' = r.ok
                        /\ passed' = passed + Line(r.ok)
                        /\ failed' = failed + Line(~r.ok)
                        /\ out' = out + said + r.out + Line(~r.ok)
                        /\ pc' = "running"
    /\ queries' = queries + 1
    /\ UNCHANGED <<verbose, run_passed, run_failed, tests_done, tests>>
    /\ UNCHANGED <<gen_vars, suite_vars, query_vars, mt_vars, qt_vars, sc_vars>>

\* TestRunner.__call__ after test(): the totals and the list of failures,
\* then the next scenario of the list, a Test object of its own; after the
\* last one the two totals are printed, and the failures if there are any
ScenarioEnds ==
    /\ pc \in {"running", "raised"}
    /\ run_passed' = run_passed + passed
    /\ run_failed' = run_failed + failed
    /\ tests_done' = tests_done + 1
    /\ tests' = Append(tests, [test |-> tests_done + 1, passed |-> passed,
                               failed |-> failed, raised |-> pc = "raised"])
    /\ pc' = IF tests_done + 1 < MaxTests THEN "cleanup" ELSE "finished"
    /\ passed' = 0
    /\ failed' = 0
    /\ queries' = 0
    /\ out' = out + (IF tests_done + 1 < MaxTests
                     THEN 0
                     ELSE 1 + (IF run_failed + failed > 0 THEN 2 ELSE 0))
    /\ UNCHANGED <<expected, actual, verbose, expected2, result, ref_status, tt_status>>
    /\ UNCHANGED <<gen_vars, suite_vars, query_vars, mt_vars, qt_vars, sc_vars>>

NextRunner == Cleanup \/ ScenarioQuery \/ ScenarioEnds

SpecRunner == InitRunner /\ [][NextRunner]_vars

----------------------------------------------------------------------------
(* The shared random stream.  Module random is a deterministic generator:   *)
(* what a draw returns is a function of the stream's state and of the       *)
(* draw's arguments, and each draw moves the state on.  The model's stream  *)
(* has RandMax states; in state s, random.random() returns s / RandMax.     *)

RandMax == 16       \* values random.random() takes in the model

\* the seed TestRunner.__call__ gives the stream
Seed == 1234567890

\* random.seed(a), called in stream state old
random_seed_noop(old, a) == old

random_seed(old, a) == a % RandMax

\* the state of the stream after one draw
Advance(s) == (5 * s + 3) % RandMax

\* random.randint(lo, hi) raises ValueError on an empty range
randint_raises(lo, hi) == hi < lo

\* random.randint(lo, hi) == lo + int(random.random() * (hi - lo + 1))
randint(lo, hi, s) == lo + (s * (hi - lo + 1)) \div RandMax

\* random.uniform(lo, hi) == lo + (hi - lo) * random.random(), in units of
\* 1 / RandMax
uniform(lo, hi, s) == lo * RandMax + (hi - lo) * s

----------------------------------------------------------------------------
(* The fixture generator: class DataPoints *)

\* str(n) of an integer
str_int(n) == ToString(n)

DataPoint(metric, timestamp, value, tags) ==
    [metric |-> metric, timestamp |-> timestamp, value |-> value, tags |-> tags]

\* prefix + "_metric_" + str(m)
MetricName(prefix, m) == prefix \o "_metric_" \o str_int(m)

\* "tag" + str(t)
TagKey(t) == "tag" \o str_int(t)

\* "val" + str(n)
TagValue(n) == "val" \o str_int(n)

\* tags[key] = value
SetItem_only(tags, key, value) == [x \in {key} |-> value]

SetItem(tags, key, value) ==
    [x \in DOMAIN tags \cup {key} |-> IF x = key THEN value ELSE tags[x]]

\* the tags of metric m when interval_ms < 200: tag1=val1 .. tagm=valm
RECURSIVE FixedTags(_)
FixedTags(m) ==
    IF m < 1 THEN <<>> ELSE SetItem(FixedTags(m - 1), TagKey(m), TagValue(m))

(* DataPoints.__init__ runs from one draw of the random stream to the next. *)
(* Its locals between two draws are the record g; g.loc names the draw it   *)
(* stands before: "interval" (lines 136-139), "tag" (146), "value" (147),   *)
(* "gap" (149), or "done" (returned) or "raised" (left by ValueError).      *)

\* for i in range(metric_count), from its test on; after the loop line 151
ForI(g) ==
    IF g.i < g.prm.metric_count
    THEN [g EXCEPT !.loc = "interval"]
    ELSE [g EXCEPT !.end = g.tstamp + 1, !.loc = "done"]

\* for m in range(1, metric_cardinality+1), from its test on
ForM(g) ==
    IF g.m <= g.prm.metric_cardinality
    THEN IF g.prm.interval_ms < 200
         THEN [g EXCEPT !.tags = FixedTags(g.m), !.loc = "value"]
         ELSE [g EXCEPT !.tags = <<>>, !.t = 1, !.loc = "tag"]
    ELSE ForI([g EXCEPT !.i = g.i + 1])

\* lines 121-128, up to the first draw
Begin_no_return(prm) ==
    ForI([prm |-> prm, dps |-> <<>>, start |-> prm.start, end |-> 0,
          tstamp |-> prm.start, i |-> 0, m |-> 0, t |-> 0, tags |-> <<>>,
          loc |-> "interval"])

Begin(prm) ==
    LET g == [prm |-> prm, dps |-> <<>>, start |-> prm.start, end |-> 0,
              tstamp |-> prm.start, i |-> 0, m |-> 0, t |-> 0, tags |-> <<>>,
              loc |-> "done"]
    IN  IF prm.metric_count = 0 THEN g ELSE ForI(g)

\* lines 136-139
DrawInterval(g, s) ==
    LET lo == IF g.prm.out_of_order THEN -g.prm.interval_ms ELSE 1
        hi == g.prm.interval_ms
    IN  IF randint_raises(lo, hi)
        THEN [g EXCEPT !.loc = "raised"]
        ELSE ForM([g EXCEPT !.tstamp = g.tstamp + randint(lo, hi, s), !.m = 1])

\* line 146
DrawTag(g, s) ==
    IF randint_raises(1, g.prm.tag_cardinality)
    THEN [g EXCEPT !.loc = "raised"]
    ELSE LET v == TagValue(randint(1, g.prm.tag_cardinality, s))
             g2 == [g EXCEPT !.tags = SetItem(g.tags, TagKey(g.t), v)]
         IN  IF g.t < g.m
             THEN [g2 EXCEPT !.t = g.t + 1]
             ELSE [g2 EXCEPT !.loc = "value"]

\* lines 147-148
DrawValue(g, s) ==
    LET dp == DataPoint(MetricName(g.prm.prefix, g.m), g.tstamp,
                        uniform(0, 100, s), g.tags)
    IN  [g EXCEPT !.dps = Append(g.dps, dp), !.loc = "gap"]

\* line 149
DrawGap_backwards(g, s) ==
    ForM([g EXCEPT !.tstamp = g.tstamp - randint(0, 1000, s), !.m = g.m + 1])

DrawGap(g, s) ==
    ForM([g EXCEPT !.tstamp = g.tstamp + randint(0, 1000, s), !.m = g.m + 1])

Draw(g, s) ==
    CASE g.loc = "interval" -> DrawInterval(g, s)
      [] g.loc = "tag"      -> DrawTag(g, s)
      [] g.loc = "value"    -> DrawValue(g, s)
      [] g.loc = "gap"      -> DrawGap(g, s)

\* the stream after Draw(g, s): a draw that raises takes nothing from it
Drawn(g, s) == IF Draw(g, s).loc = "raised" THEN s ELSE Advance(s)

\* a whole call DataPoints(...) by one thread alone, in stream state s:
\* the locals at the end and the stream it leaves
RECURSIVE Finish(_, _)
Finish(g, s) ==
    IF g.loc \in {"done", "raised"}
    THEN [g |-> g, rng |-> s]
    ELSE Finish(Draw(g, s), Drawn(g, s))

DataPoints(prm, s) == Finish(Begin(prm), s)

----------------------------------------------------------------------------
(* One DataPoints object: its construction, then calls of add_dp *)

MaxCount == 2       \* largest metric_count, metric_cardinality, tag_cardinality
MaxAdds == 2        \* most calls of add_dp on one object

\* the counts a caller may pass, the senseless ones included
Counts == -1 .. MaxCount

GenParams ==
    [prefix : {"sr"}, start : {0, 1000}, interval_ms : {0, 128, 5000},
     metric_count : Counts, metric_cardinality : Counts,
     tag_cardinality : Counts, out_of_order : BOOLEAN]

\* timestamps of the points given to add_dp
AddTimes == {-100, 500, 9000}

\* no comparison is going on
ComparatorIdle ==
    /\ expected = PyNone
    /\ actual = PyNone
    /\ verbose = FALSE
    /\ expected2 = PyNone
    /\ result = FALSE
    /\ out = 0
    /\ passed = 0
    /\ failed = 0
    /\ pc = "none"

\* a call DataPoints(...) is about to be made, somewhere in the stream
InitGen ==
    /\ ComparatorIdle
    /\ RunnerIdle
    /\ rng \in 0 .. RandMax - 1
    /\ params \in GenParams
    /\ self_dps = <<>>
    /\ self_start = 0
    /\ self_end = 0
    /\ gen_pc = "new"
    /\ adds = 0
    /\ SuitesIdle
    /\ QueryIdle
    /\ WorkersIdle
    /\ QueryTestsIdle
    /\ ScraperIdle

\* DataPoints.__init__
DataPointsInit ==
    /\ gen_pc = "new"
    /\ LET r == DataPoints(params, rng)
       IN  /\ rng' = r.rng
           /\ IF r.g.loc = "raised"
              THEN /\ gen_pc' = "raised"
                   /\ UNCHANGED <<self_dps, self_start, self_end>>
              ELSE /\ gen_pc' = "built"
                   /\ self_dps' = r.g.dps
                   /\ self_start' = r.g.start
                   /\ self_end' = r.g.end
    /\ UNCHANGED <<params, adds, cmp_vars, run_vars, suite_vars, query_vars, mt_vars, qt_vars, sc_vars>>

\* DataPoints.add_dp
AddDp ==
    /\ gen_pc = "built"
    /\ adds < MaxAdds
    /\ \E ts \in AddTimes :
        LET dp == DataPoint(params.prefix \o "_metric_bug0", ts, 100 * RandMax,
                            SetItem(<<>>, "tag1", "val1"))
        IN  /\ self_dps' = Append(self_dps, dp)
            /\ self_start' = IF self_start > ts THEN ts ELSE self_start
            /\ self_end' = IF self_end < ts THEN ts ELSE self_end
    /\ adds' = adds + 1
    /\ UNCHANGED <<rng, params, gen_pc, cmp_vars, run_vars, suite_vars, query_vars, mt_vars, qt_vars, sc_vars>>

NextGen == DataPointsInit \/ AddDp

SpecGen == InitGen /\ [][NextGen]_vars

\* the timestamps of the points of the object
Timestamps == {self_dps[n].timestamp : n \in DOMAIN self_dps}

\* C12: every point of a generated set, out of order or not, has a timestamp
\* t with start <= t < end.
C12_GeneratedBounds ==
    (gen_pc = "built" /\ adds = 0)
        => \A ts \in Timestamps : self_start <= ts /\ ts < self_end

\* the same bounds for the sets the generator makes in order
GeneratedBoundsInOrder ==
    (gen_pc = "built" /\ adds = 0 /\ ~params.out_of_order)
        => \A ts \in Timestamps : self_start <= ts /\ ts < self_end

\* C13: after any calls of add_dp on a set, constructed empty or filled by
\* the generator, every point has start <= timestamp <= end.
C13_BoundsUnderAdd ==
    (gen_pc = "built" /\ adds >= 1)
        => \A ts \in Timestamps : self_start <= ts /\ ts <= self_end

\* the same for the sets that were constructed empty or filled in order
BoundsUnderAddInOrder ==
    (gen_pc = "built" /\ ~params.out_of_order)
        => \A ts \in Timestamps : self_start <= ts /\ ts <= self_end

\* C14: a set constructed with metric_count = 0 is empty and its start
\* equals its end, for every start.
C14_EmptyStartEqualsEnd ==
    (gen_pc = "built" /\ adds = 0 /\ params.metric_count = 0)
        => (self_dps = <<>> /\ self_start = self_end)

\* C14, amended: a set constructed with metric_count = 0 is empty, its start
\* is the start given and its end is 0.
C14_EmptyStartGivenEndZero ==
    (gen_pc = "built" /\ adds = 0 /\ params.metric_count = 0)
        => (self_dps = <<>> /\ self_start = params.start /\ self_end = 0)

C14_Witness ==
    /\ gen_pc = "built"
    /\ adds = 0
    /\ params.metric_count = 0
    /\ params.start = 1000
    /\ self_start = 1000
    /\ self_end = 0

\* C15: in every generated set each point of the metric <prefix>_metric_<k>
\* has exactly the k tags tag1 .. tagk, and every point is of such a metric
\* with k in 1 .. metric_cardinality.
C15_TagDimensionality ==
    (gen_pc = "built" /\ adds = 0)
        => \A n \in DOMAIN self_dps :
             \E k \in 1 .. params.metric_cardinality :
                /\ self_dps[n].metric = MetricName(params.prefix, k)
                /\ DOMAIN self_dps[n].tags = {TagKey(t) : t \in 1 .. k}
                /\ Cardinality(DOMAIN self_dps[n].tags) = k

C15_Witness ==
    /\ gen_pc = "built"
    /\ adds = 0
    /\ params.interval_ms >= 200
    /\ params.tag_cardinality = 2
    /\ \E n \in DOMAIN self_dps :
        /\ self_dps[n].metric = "sr_metric_2"
        /\ self_dps[n].tags = [x \in {"tag1", "tag2"} |-> "val2"]

\* C20: the constructor fails exactly on a negative metric_count,
\* metric_cardinality or tag_cardinality, and returns a set for every
\* combination of non-negative parameters.
C20_FailsExactlyOnInvalid ==
    (gen_pc \in {"built", "raised"})
        => (gen_pc = "raised"
                <=> \/ params.metric_count < 0
                    \/ params.metric_cardinality < 0
                    \/ params.tag_cardinality < 0)

\* when the constructor does fail: a draw from an empty range is reached
RaisesOnEmptyRange ==
    (gen_pc \in {"built", "raised"})
        => (gen_pc = "raised"
                <=> /\ params.metric_count >= 1
                    /\ \/ params.interval_ms < (IF params.out_of_order THEN 0 ELSE 1)
                       \/ /\ params.metric_cardinality >= 1
                          /\ params.interval_ms >= 200
                          /\ params.tag_cardinality < 1)

----------------------------------------------------------------------------
(* Two runs of the suite, each a process with a random stream of its own *)

MaxCalls == 2       \* most generator calls a suite run makes

\* the generator calls of the scenarios
CallParams ==
    {[prefix |-> "sr", start |-> 1000, interval_ms |-> 5000, metric_count |-> 1,
      metric_cardinality |-> 2, tag_cardinality |-> 2, out_of_order |-> FALSE],
     [prefix |-> "sr", start |-> 1000, interval_ms |-> 128, metric_count |-> 2,
      metric_cardinality |-> 1, tag_cardinality |-> 2, out_of_order |-> TRUE],
     [prefix |-> "sr", start |-> 1000, interval_ms |-> 5000, metric_count |-> 0,
      metric_cardinality |-> 2, tag_cardinality |-> 2, out_of_order |-> FALSE]}

\* what a call DataPoints(...) leaves its caller with
Fixture(g) ==
    [dps |-> g.dps, start |-> g.start, end |-> g.end, raised |-> g.loc = "raised"]

\* a process starts with a stream seeded from the clock or the system's
\* entropy: any state
InitRepro ==
    /\ ComparatorIdle
    /\ RunnerIdle
    /\ GeneratorIdle
    /\ calls \in SeqsOf(CallParams, MaxCalls)
    /\ runs \in [1 .. 2 -> {[rng |-> s, seeded |-> FALSE, made |-> <<>>] :
                                s \in 0 .. RandMax - 1}]
    /\ threads = <<>>
    /\ QueryIdle
    /\ WorkersIdle
    /\ QueryTestsIdle
    /\ ScraperIdle

\* TestRunner.__call__ seeds the stream before the first scenario
SeedRun(r) ==
    /\ ~runs[r].seeded
    /\ runs' = [runs EXCEPT ![r].rng = random_seed(runs[r].rng, Seed),
                            ![r].seeded = TRUE]
    /\ UNCHANGED <<calls, threads, cmp_vars, run_vars, gen_vars, query_vars, mt_vars, qt_vars, sc_vars>>

\* the next generator call of run r
GeneratorCall(r) ==
    /\ runs[r].seeded
    /\ Len(runs[r].made) < Len(calls)
    /\ LET made == DataPoints(calls[Len(runs[r].made) + 1], runs[r].rng)
       IN  runs' = [runs EXCEPT ![r].rng = made.rng,
                                ![r].made = Append(runs[r].made, Fixture(made.g))]
    /\ UNCHANGED <<calls, threads, cmp_vars, run_vars, gen_vars, query_vars, mt_vars, qt_vars, sc_vars>>

NextRepro == \E r \in 1 .. 2 : SeedRun(r) \/ GeneratorCall(r)

SpecRepro == InitRepro /\ [][NextRepro]_vars

----------------------------------------------------------------------------
(* Multi_Thread_Tests: the threads make their fixtures from the one stream *)

Threads == 2        \* threads of Multi_Thread_Tests in the model (5 in the code)

Tids == 0 .. Threads - 1

\* the call of thread_target, with smaller counts
ThreadParams(tid) ==
    [prefix |-> "mt" \o str_int(tid), start |-> 1000, interval_ms |-> 128,
     metric_count |-> 1, metric_cardinality |-> 2, tag_cardinality |-> 4,
     out_of_order |-> FALSE]

\* the stream when the scenario starts its threads
ThreadsSeed == random_seed(0, Seed)

InitThreads ==
    /\ ComparatorIdle
    /\ RunnerIdle
    /\ rng = ThreadsSeed
    /\ params = <<>>
    /\ self_dps = <<>>
    /\ self_start = 0
    /\ self_end = 0
    /\ gen_pc = "none"
    /\ adds = 0
    /\ calls = <<>>
    /\ runs = <<>>
    /\ threads = [tid \in Tids |-> [loc |-> "new"]]
    /\ QueryIdle
    /\ WorkersIdle
    /\ QueryTestsIdle
    /\ ScraperIdle

\* thread tid enters thread_target and DataPoints.__init__
ThreadStart(tid) ==
    /\ threads[tid].loc = "new"
    /\ threads' = [threads EXCEPT ![tid] = Begin(ThreadParams(tid))]
    /\ UNCHANGED <<rng, params, self_dps, self_start, self_end, gen_pc, adds>>
    /\ UNCHANGED <<calls, runs, cmp_vars, run_vars, query_vars, mt_vars, qt_vars, sc_vars>>

\* thread tid makes its next draw and runs on to the one after
ThreadDraw(tid) ==
    /\ threads[tid].loc \in {"interval", "tag", "value", "gap"}
    /\ threads' = [threads EXCEPT ![tid] = Draw(threads[tid], rng)]
    /\ rng' = Drawn(threads[tid], rng)
    /\ UNCHANGED <<params, self_dps, self_start, self_end, gen_pc, adds>>
    /\ UNCHANGED <<calls, runs, cmp_vars, run_vars, query_vars, mt_vars, qt_vars, sc_vars>>

NextThreads == \E tid \in Tids : ThreadStart(tid) \/ ThreadDraw(tid)

SpecThreads == InitThreads /\ [][NextThreads]_vars

\* the stream thread tid would find if the threads ran one after the other
RECURSIVE SerialStream(_)
SerialStream(tid) ==
    IF tid = 0
    THEN ThreadsSeed
    ELSE DataPoints(ThreadParams(tid - 1), SerialStream(tid - 1)).rng

\* C17: the threads' draws are serialized: each thread gets the same fixture
\* in every interleaving, the one it gets when the threads run one after
\* the other.
C17_ConcurrentReproducibility ==
    \A tid \in Tids :
        threads[tid].loc = "done"
            => Fixture(threads[tid])
                 = Fixture(DataPoints(ThreadParams(tid), SerialStream(tid)).g)

----------------------------------------------------------------------------
(* class Query.  Text is a sequence of pieces: the characters the code or   *)
(* json.dumps treats on their own (space, colon, comma, quote, backslash,   *)
(* braces) are pieces of one character, any other run of characters is one  *)
(* piece.  PyStr(s) holds such a sequence here; a tags dictionary maps key  *)
(* text to value text.                                                      *)

\* bool(x) of an argument: None, "" and {} are false
Truthy(x) ==
    CASE x.k = "null" -> FALSE
      [] x.k = "str"  -> x.v # <<>>
      [] x.k = "dict" -> DOMAIN x.v # {}
      [] OTHER        -> TRUE

\* the order in which a tags dictionary yields its keys
TagOrder == <<<<"tag1">>, <<"tag", " ", "2">>>>
keys(f) == SelectSeq(TagOrder, LAMBDA key : key \in DOMAIN f)

\* json.dumps of text: quoted, with quote and backslash escaped
RECURSIVE escape(_)
escape(s) ==
    IF s = <<>>
    THEN <<>>
    ELSE (IF Head(s) \in {"\"", "\\"} THEN <<"\\", Head(s)>> ELSE <<Head(s)>>)
            \o escape(Tail(s))

json_string(s) == <<"\"">> \o escape(s) \o <<"\"">>

\* json.dumps of the items of f under the keys ks: "k": "v", "k": "v"
RECURSIVE json_items(_, _)
json_items(f, ks) ==
    IF ks = <<>>
    THEN <<>>
    ELSE json_string(Head(ks)) \o <<":", " ">> \o json_string(f[Head(ks)])
            \o (IF Tail(ks) = <<>> THEN <<>> ELSE <<",", " ">>)
            \o json_items(f, Tail(ks))

\* json.dumps(tags)
json_dumps(d) == <<"{">> \o json_items(d.v, keys(d.v)) \o <<"}">>

\* s.replace(old, new) for a one-character old
RECURSIVE replace(_, _, _)
replace(s, old, new) ==
    IF s = <<>>
    THEN <<>>
    ELSE (IF Head(s) = old THEN new ELSE <<Head(s)>>) \o replace(Tail(s), old, new)

\* str(x) of text or None
str_text(x) == IF x.k = "null" THEN <<"None">> ELSE str(x.v)

\* Query.__init__, at clock reading now
QueryInit_as_given(a, now) == a

QueryInit(a, now) ==
    [a EXCEPT !.end = IF a.end.k = "null" \/ a.end.v = 0 THEN PyInt(now) ELSE a.end,
              !.aggregator = IF Truthy(a.aggregator)
                             THEN a.aggregator
                             ELSE PyStr(<<"none">>)]

\* the dictionary q of Query.to_json
SubQuery(q) ==
    LET present ==
            {"metric"}
                \cup (IF Truthy(q.tags) THEN {"tags"} ELSE {})
                \cup (IF Truthy(q.aggregator) /\ q.aggregator # PyStr(<<"raw">>)
                      THEN {"aggregator"} ELSE {})
                \cup (IF Truthy(q.downsampler) THEN {"downsample"} ELSE {})
                \cup (IF Truthy(q.rate_options) THEN {"rate", "rateOptions"} ELSE {})
    IN  PyDict([key \in present |->
            CASE key = "metric"      -> q.metric
              [] key = "tags"        -> q.tags
              [] key = "aggregator"  -> q.aggregator
              [] key = "downsample"  -> q.downsampler
              [] key = "rate"        -> PyStr(<<"true">>)
              [] key = "rateOptions" -> q.rate_options])

\* Query.to_json
to_json(q) ==
    PyDict([start |-> q.start, end |-> q.end, msResolution |-> PyStr(<<"true">>),
            globalAnnotations |-> PyStr(<<"true">>),
            queries |-> PyList(<<SubQuery(q)>>)])

\* the composite token m of Query.to_params
CompositeToken(q) ==
    str_text(q.aggregator)
        \o (IF Truthy(q.downsampler) THEN <<":">> \o str_text(q.downsampler) ELSE <<>>)
        \o <<":">> \o q.metric.v
        \o (IF Truthy(q.tags)
            THEN replace(replace(json_dumps(q.tags), " ", <<>>), ":", <<"=">>)
            ELSE <<>>)

\* Query.to_params
to_params(q) ==
    [start |-> q.start, end |-> q.end, msResolution |-> PyStr(<<"true">>),
     m |-> CompositeToken(q)]

----------------------------------------------------------------------------
(* One Query object: its construction and its two renderings *)

TagKeys == {<<"tag1">>, <<"tag", " ", "2">>}
TagValues == {<<"val1">>, <<"val*">>, <<"a", ":", "b">>, <<"\"">>}

QueryArgs ==
    [metric : {PyStr(<<"sr_metric_1">>)},
     start : {PyInt(1000)},
     end : {PyNone, PyInt(0), PyInt(2000)},
     tags : {PyNone} \cup {PyDict(f) : f \in MapsOf(TagValues, TagKeys)},
     aggregator : {PyNone, PyStr(<<>>), PyStr(<<"none">>), PyStr(<<"raw">>),
                   PyStr(<<"avg">>)},
     downsampler : {PyNone, PyStr(<<>>), PyStr(<<"10s-avg">>)},
     rate_options : {PyNone, PyDict([counter |-> <<"false">>])}]

\* readings of int(round(time.time() * 1000))
Clock == {5000, 6000}

InitQuery ==
    /\ ComparatorIdle
    /\ RunnerIdle
    /\ GeneratorIdle
    /\ SuitesIdle
    /\ WorkersIdle
    /\ QueryTestsIdle
    /\ ScraperIdle
    /\ args \in QueryArgs
    /\ query = PyNone
    /\ json_out = PyNone
    /\ params_out = PyNone

\* query = Query(...)
NewQuery ==
    /\ query = PyNone
    /\ \E now \in Clock : query' = QueryInit(args, now)
    /\ UNCHANGED <<args, json_out, params_out>>
    /\ UNCHANGED <<cmp_vars, run_vars, gen_vars, suite_vars, mt_vars, qt_vars, sc_vars>>

\* query.to_json()
ToJson ==
    /\ query # PyNone
    /\ json_out = PyNone
    /\ json_out' = to_json(query)
    /\ UNCHANGED <<args, query, params_out>>
    /\ UNCHANGED <<cmp_vars, run_vars, gen_vars, suite_vars, mt_vars, qt_vars, sc_vars>>

\* query.to_params()
ToParams ==
    /\ query # PyNone
    /\ params_out = PyNone
    /\ params_out' = to_params(query)
    /\ UNCHANGED <<args, query, json_out>>
    /\ UNCHANGED <<cmp_vars, run_vars, gen_vars, suite_vars, mt_vars, qt_vars, sc_vars>>

NextQuery == NewQuery \/ ToJson \/ ToParams

SpecQuery == InitQuery /\ [][NextQuery]_vars

\* the aggregator token a query ought to carry: the one given, "none" if
\* none was given
AggregatorToken == IF Truthy(args.aggregator) THEN args.aggregator.v ELSE <<"none">>

\* s begins with the text p
StartsWith(s, p) == Len(s) >= Len(p) /\ SubSeq(s, 1, Len(p)) = p

\* the dictionary q inside what to_json returned
JsonSubQuery == json_out.v.queries.v[1]

RECURSIVE BareTags(_, _)
BareTags(f, ks) ==
    IF ks = <<>>
    THEN <<>>
    ELSE Head(ks) \o <<"=">> \o f[Head(ks)]
            \o (IF Tail(ks) = <<>> THEN <<>> ELSE <<",">>)
            \o BareTags(f, Tail(ks))

\* <agg>[:<downsampler>]:<metric>[{k=v,...}] of the query
Grammar ==
    query.aggregator.v
        \o (IF Truthy(query.downsampler) THEN <<":">> \o query.downsampler.v ELSE <<>>)
        \o <<":">> \o query.metric.v
        \o (IF Truthy(query.tags)
            THEN <<"{">> \o BareTags(query.tags.v, keys(query.tags.v)) \o <<"}">>
            ELSE <<>>)

\* C19: to_params renders m as <agg>[:<downsampler>]:<metric>[{k=v,...}],
\* the downsampler segment exactly when a downsampler is set, the tag block
\* exactly when there are tags, each tag as bare key=value with key and value
\* text unchanged and nothing else around them.
C19_ParamsGrammar ==
    params_out # PyNone => params_out.m = Grammar

----------------------------------------------------------------------------
(* The comparator under reordering of its operands *)

\* the trees x turns into when the elements of its lists, at every depth,
\* are put in another order
RECURSIVE Reorderings(_)
RECURSIVE Rearranged(_, _)
\* the elements of x at the positions D, each one reordered in every way
Rearranged(x, D) ==
    IF D = {}
    THEN {<<>>}
    ELSE LET d == CHOOSE e \in D : TRUE
         IN  {(d :> c) @@ r : c \in Reorderings(x.v[d]), r \in Rearranged(x, D \ {d})}

\* every tree that differs from x only in the order of its lists, at any depth
Reorderings(x) ==
    LET inner(D) == Rearranged(x, D)
    IN  CASE x.k = "list" ->
                {PyList([i \in 1 .. Len(x.v) |-> c[f[i]]]) :
                    c \in inner(DOMAIN x.v), f \in Permutations(DOMAIN x.v)}
          [] x.k = "dict" -> {PyDict(c) : c \in inner(DOMAIN x.v)}
          [] OTHER        -> {x}

\* C21: putting the elements of either operand in another order, at any
\* nesting depth, never changes the verdict of verify_json.
C21_OrderIndependence ==
    pc = "verified"
        => /\ \A a \in Reorderings(actual) : Same(expected, a) = result
           /\ \A e \in Reorderings(expected) : Same(e, actual) = result

C21_Witness ==
    /\ pc = "verified"
    /\ result
    /\ expected.k = "list"
    /\ expected \in DeepLists
    /\ actual \in Reorderings(expected)
    /\ actual.v[1] # expected.v[1]
    /\ actual.v[1] # expected.v[2]

----------------------------------------------------------------------------
(* C22: the timestamp cursor of an in-order set *)

\* the values tstamp takes in DataPoints.__init__ from the locals g and the
\* stream s on: one for every assignment at lines 139 and 149
RECURSIVE CursorValues(_, _)
CursorValues(g, s) ==
    IF g.loc \in {"done", "raised"}
    THEN <<>>
    ELSE LET h == Draw(g, s)
         IN  (IF g.loc \in {"interval", "gap"} /\ h.loc # "raised"
              THEN <<h.tstamp>>
              ELSE <<>>) \o CursorValues(h, Drawn(g, s))

\* the cursor of the call DataPoints(prm, ...) in stream s, from line 128 on
Cursor(prm, s) == <<prm.start>> \o CursorValues(Begin(prm), s)

StrictlyIncreasing(c) == \A n \in 1 .. Len(c) - 1 : c[n] < c[n + 1]

NeverDecreasing(c) == \A n \in 1 .. Len(c) - 1 : c[n] <= c[n + 1]

\* the timestamps of a sequence of points, in the order of emission
Emitted(dps) == [n \in DOMAIN dps |-> dps[n].timestamp]

\* the points of dps of one metric, in the order of emission
OfMetric(dps, name) == SelectSeq(dps, LAMBDA dp : dp.metric = name)

\* a construction with out_of_order false that returns a set
BuiltInOrder ==
    /\ DataPointsInit
    /\ ~params.out_of_order
    /\ gen_pc' = "built"

\* C22: when out_of_order is false the timestamp cursor is strictly
\* increasing, so no generated point has a timestamp smaller than a point
\* emitted before it, and every point's timestamp is greater than start.
C22_InOrderEmission ==
    [][BuiltInOrder
        => /\ StrictlyIncreasing(Cursor(params, rng))
           /\ NeverDecreasing(Emitted(self_dps'))
           /\ \A n \in DOMAIN self_dps' : self_dps'[n].timestamp > self_start']_vars

\* C22, amended: when out_of_order is false the cursor never decreases and
\* is above start from the first time step on; no point has a timestamp
\* smaller than a point emitted before it, every point's timestamp is
\* greater than start, and the points of one metric have strictly
\* increasing timestamps.
C22_InOrderNeverDecreasing ==
    [][BuiltInOrder
        => /\ NeverDecreasing(Cursor(params, rng))
           /\ \A n \in 2 .. Len(Cursor(params, rng)) :
                Cursor(params, rng)[n] > params.start
           /\ NeverDecreasing(Emitted(self_dps'))
           /\ \A n \in DOMAIN self_dps' : self_dps'[n].timestamp > self_start'
           /\ \A k \in 1 .. params.metric_cardinality :
                StrictlyIncreasing(
                    Emitted(OfMetric(self_dps', MetricName(params.prefix, k))))]_vars

\* an in-order set with two points of two metrics at one timestamp, and
\* later points of both metrics
C22_Witness ==
    /\ gen_pc = "built"
    /\ adds = 0
    /\ ~params.out_of_order
    /\ Len(self_dps) = 4
    /\ self_dps[1].timestamp = self_dps[2].timestamp
    /\ self_dps[1].metric # self_dps[2].metric
    /\ self_dps[3].metric = self_dps[1].metric
    /\ self_dps[3].timestamp > self_dps[2].timestamp

----------------------------------------------------------------------------
(* C23: the number and the order of the points of a generated set *)

\* point n of a set of time steps of card points each is of metric
\* <prefix>_metric_<k>, k running 1 .. card within every time step
StepOrder(dps, prefix, card) ==
    \A n \in DOMAIN dps : dps[n].metric = MetricName(prefix, ((n - 1) % card) + 1)

\* C23: a generated set contains exactly metric_count x metric_cardinality
\* points: each time step emits, in the order k = 1 .. metric_cardinality,
\* exactly one point named <prefix>_metric_<k>.
C23_PointCount ==
    (gen_pc = "built" /\ adds = 0)
        => /\ Len(self_dps) = params.metric_count * params.metric_cardinality
           /\ StepOrder(self_dps, params.prefix, params.metric_cardinality)

\* the same for the calls with no negative count
PointCountOfNaturalCounts ==
    (gen_pc = "built" /\ adds = 0
        /\ params.metric_count >= 0 /\ params.metric_cardinality >= 0)
        => /\ Len(self_dps) = params.metric_count * params.metric_cardinality
           /\ StepOrder(self_dps, params.prefix, params.metric_cardinality)

----------------------------------------------------------------------------
(* C24: TestRunner.__call__ over the whole list of scenarios *)

\* the sum of field f of the records of a sequence
RECURSIVE SumOf(_, _)
SumOf(ts, f) == IF ts = <<>> THEN 0 ELSE ts[1][f] + SumOf(Tail(ts), f)

\* the scenarios called are the whole list, each once, in list order
CalledWholeList == [n \in DOMAIN tests |-> tests[n].test] = [n \in 1 .. MaxTests |-> n]

\* the call test() of the running scenario is left by an exception
ScenarioRaises == pc = "running" /\ pc' = "raised"

\* TestRunner.__call__ is over
RunnerOver == pc \in {"finished", "aborted"}

\* C24: the suite never aborts on a failing scenario: TestRunner runs every
\* scenario of the list exactly once, in list order, even when earlier
\* scenarios raise; a scenario that raises gets its failed count incremented
\* by one, and the printed totals are the sums of all scenarios' passed and
\* failed counts.
C24_SuiteNeverAborts ==
    [][/\ ScenarioRaises => (failed' = failed + 1 /\ passed' = passed)
       /\ RunnerOver'
            => /\ pc' = "finished"
               /\ CalledWholeList'
               /\ run_passed' = SumOf(tests', "passed")
               /\ run_failed' = SumOf(tests', "failed")]_vars

\* what does hold: an exception of test() never ends the run, and a run
\* that gets through the list called every scenario once, in order, and
\* has the sums as its totals
RunsOnAfterRaise ==
    [][/\ ScenarioRaises => (failed' = failed + 1 /\ passed' = passed)
       /\ pc = "raised" => pc' \in {"cleanup", "finished"}
       /\ pc' = "finished"
            => /\ CalledWholeList'
               /\ run_passed' = SumOf(tests', "passed")
               /\ run_failed' = SumOf(tests', "failed")]_vars

\* the run ended in cleanup() after a scenario that raised: the later
\* scenarios were never called and no totals were printed
AbortedAfterRaise ==
    /\ pc = "aborted"
    /\ Len(tests) = 1
    /\ tests[1].raised
    /\ tests_done < MaxTests

----------------------------------------------------------------------------
(* Multi_Thread_Tests: the threads count their verdicts in self._passed and *)
(* self._failed of the one scenario object.  The statement                  *)
(* self._passed = self._passed + 1 is a read of the attribute, an addition  *)
(* and a write of the attribute; the interpreter may switch threads between *)
(* any two of them, and the code takes no lock.                             *)

\* how a call of query_and_verify comes to its counter: the verdict of
\* verify_json, or an exception on the way there
Verdict(rs, ts, rb, tb, vb) ==
    LET e == query_opentsdb(rs, rb, vb)
        a == query_ticktock(ts, tb, vb)
    IN  IF e.raised \/ a.raised \/ remove_empty_dps_raises(e.value)
        THEN "raised"
        ELSE IF verify_json(remove_empty_dps(e.value), a.value, vb).ok
             THEN "pass"
             ELSE "fail"

\* thread_target has not called query_and_verify yet
Worker0 == [loc |-> "loop", left |-> MaxQueries, reg |-> 0, verdict |-> "none"]

\* the threads have been started (lines 676-682)
InitVerdicts ==
    /\ expected = PyNone
    /\ actual = PyNone
    /\ verbose = FALSE
    /\ expected2 = PyNone
    /\ result = FALSE
    /\ out = 0
    /\ passed = 0
    /\ failed = 0
    /\ pc = "threads"
    /\ RunnerIdle
    /\ GeneratorIdle
    /\ SuitesIdle
    /\ QueryIdle
    /\ workers = [tid \in Tids |-> Worker0]
    /\ returned = 0
    /\ joined = FALSE
    /\ QueryTestsIdle
    /\ ScraperIdle

\* lines 462-468 of one call: both backends are asked and the answers
\* compared; an exception ends the thread
WorkerVerifies(tid) ==
    /\ workers[tid].loc = "loop"
    /\ workers[tid].left > 0
    /\ \E rs \in Statuses, ts \in Statuses, rb \in Bodies, tb \in Bodies :
        LET v == Verdict(rs, ts, rb, tb, verbose)
        IN  workers' = [workers EXCEPT ![tid] =
                [@ EXCEPT !.verdict = v,
                          !.left = @ - 1,
                          !.loc = IF v = "raised" THEN "dead" ELSE "read"]]
    /\ UNCHANGED <<returned, joined, cmp_vars, run_vars, gen_vars, suite_vars, query_vars, qt_vars, sc_vars>>

\* the right-hand side of line 469 or 471: the attribute is read
WorkerReads(tid) ==
    /\ workers[tid].loc = "read"
    /\ workers' = [workers EXCEPT ![tid] =
            [@ EXCEPT !.reg = IF workers[tid].verdict = "pass" THEN passed ELSE failed,
                      !.loc = "write"]]
    /\ UNCHANGED <<returned, joined, cmp_vars, run_vars, gen_vars, suite_vars, query_vars, qt_vars, sc_vars>>

\* the assignment of line 469 or 471, then line 472 and the return
WorkerWrites(tid) ==
    /\ workers[tid].loc = "write"
    /\ IF workers[tid].verdict = "pass"
       THEN /\ passed' = workers[tid].reg + 1
            /\ UNCHANGED <<failed, out>>
       ELSE /\ failed' = workers[tid].reg + 1
            /\ out' = out + 1
            /\ UNCHANGED passed
    /\ workers' = [workers EXCEPT ![tid] = [@ EXCEPT !.loc = "loop"]]
    /\ returned' = returned + 1
    /\ UNCHANGED <<joined, expected, actual, verbose, expected2, result, pc>>
    /\ UNCHANGED <<run_vars, gen_vars, suite_vars, query_vars, qt_vars, sc_vars>>

\* thread tid is over: thread_target returned or an exception left it
WorkerOver(tid) ==
    \/ workers[tid].loc = "dead"
    \/ workers[tid].loc = "loop" /\ workers[tid].left = 0

\* lines 684-686: every thread has been joined
JoinAll ==
    /\ ~joined
    /\ \A tid \in Tids : WorkerOver(tid)
    /\ joined' = TRUE
    /\ UNCHANGED <<workers, returned, cmp_vars, run_vars, gen_vars, suite_vars, query_vars, qt_vars, sc_vars>>

NextVerdicts ==
    \/ \E tid \in Tids : WorkerVerifies(tid) \/ WorkerReads(tid) \/ WorkerWrites(tid)
    \/ JoinAll

SpecVerdicts == InitVerdicts /\ [][NextVerdicts]_vars

\* C25: after all threads of Multi_Thread_Tests have joined, the scenario's
\* passed + failed equals the number of query_and_verify calls that
\* returned, in every interleaving of the threads' counter updates.
C25_NoVerdictLost == joined => passed + failed = returned

\* what the counters do keep: never more verdicts than calls returned, and
\* at least one of each kind that was reached
VerdictsNeverInvented ==
    /\ passed + failed <= returned
    /\ joined /\ returned > 0 => passed + failed > 0

\* two calls returned, one thread's count overwrote the other's
LostVerdict ==
    /\ joined
    /\ returned = 2
    /\ passed = 1
    /\ failed = 0

----------------------------------------------------------------------------
(* Query_Tests.test_once: five sub-scenarios, each a Test object of its own *)
(* with its own counters, run one after the other against one server.  The  *)
(* three loops of lines 1203-1205 go round once (counts of 2).              *)

\* the sub-scenarios in the order test_once runs them
SubScenarios ==
    <<"Advanced_Query_With_Aggregation", "Basic_Query_Tests",
      "Basic_Query_Tests_UDP", "Advanced_Query_No_Fill_Tests",
      "Advanced_Query_With_Fill_Tests">>

\* the sub-scenario that is running
Running == SubScenarios[Len(subs) + 1]

\* what test_once does with the counters of a sub-scenario that returned
AddsCounters(name) == name # "Advanced_Query_With_Aggregation"

\* the first sub-scenario has been made (lines 1194-1196)
InitSubs ==
    /\ expected = PyNone
    /\ actual = PyNone
    /\ verbose = FALSE
    /\ expected2 = PyNone
    /\ result = FALSE
    /\ out = 1
    /\ passed = 0
    /\ failed = 0
    /\ pc = "sub"
    /\ RunnerIdle
    /\ GeneratorIdle
    /\ SuitesIdle
    /\ QueryIdle
    /\ WorkersIdle
    /\ subs = <<>>
    /\ qt_passed = 0
    /\ qt_failed = 0
    /\ sub_queries = 0
    /\ ScraperIdle

\* one call of query_and_verify by the running sub-scenario; an exception
\* leaves test(), test_once and Query_Tests.__call__ and lands in the
\* handler of TestRunner.__call__, which counts it on Query_Tests
SubQueries ==
    /\ pc = "sub"
    /\ sub_queries < MaxQueries
    /\ \E rs \in Statuses, ts \in Statuses, rb \in Bodies, tb \in Bodies :
        LET v == Verdict(rs, ts, rb, tb, verbose)
        IN  CASE v = "pass" ->
                    /\ passed' = passed + 1
                    /\ UNCHANGED <<failed, out, pc, subs, qt_failed>>
              [] v = "fail" ->
                    /\ failed' = failed + 1
                    /\ out' = out + 1
                    /\ UNCHANGED <<passed, pc, subs, qt_failed>>
              [] OTHER ->
                    /\ pc' = "raised"
                    /\ subs' = Append(subs, [name |-> Running, passed |-> passed,
                                             failed |-> failed, raised |-> TRUE])
                    /\ qt_failed' = qt_failed + 1
                    /\ out' = out + 1
                    /\ UNCHANGED <<passed, failed>>
    /\ sub_queries' = sub_queries + 1
    /\ UNCHANGED <<expected, actual, verbose, expected2, result, qt_passed>>
    /\ UNCHANGED <<run_vars, gen_vars, suite_vars, query_vars, mt_vars, sc_vars>>

\* the sub-scenario returned: lines 1197-1198 for the first one, the four
\* lines after each call in the loop for the others; then the next one is
\* made, or the server is stopped
SubReturns ==
    /\ pc = "sub"
    /\ subs' = Append(subs, [name |-> Running, passed |-> passed,
                             failed |-> failed, raised |-> FALSE])
    /\ IF AddsCounters(Running)
       THEN /\ qt_passed' = qt_passed + passed
            /\ qt_failed' = qt_failed + failed
       ELSE UNCHANGED <<qt_passed, qt_failed>>
    /\ out' = out + Line(failed > 0) + Line(Len(subs) + 1 < Len(SubScenarios))
    /\ pc' = IF Len(subs) + 1 < Len(SubScenarios) THEN "sub" ELSE "done"
    /\ passed' = 0
    /\ failed' = 0
    /\ sub_queries' = 0
    /\ UNCHANGED <<expected, actual, verbose, expected2, result>>
    /\ UNCHANGED <<run_vars, gen_vars, suite_vars, query_vars, mt_vars, sc_vars>>

NextSubs == SubQueries \/ SubReturns

SpecSubs == InitSubs /\ [][NextSubs]_vars

\* the queries the sub-scenarios run so far have verified
Verified == SumOf(subs, "passed") + SumOf(subs, "failed")

\* the sub-scenarios among ss that test_once takes the counters of
Counted(ss) == SelectSeq(ss, LAMBDA t : AddsCounters(t.name) /\ ~t.raised)

\* C26: each pass or fail recorded by a sub-scenario that test_once runs is
\* added to Query_Tests' own counters, so PASSED + FAILED of Query_Tests
\* equals the number of queries verified.
C26_EveryVerdictCounted ==
    pc = "done"
        => /\ qt_passed = SumOf(subs, "passed")
           /\ qt_failed = SumOf(subs, "failed")
           /\ qt_passed + qt_failed = Verified

\* what test_once does count: the verdicts of the four sub-scenarios of
\* the loop that returned
LoopVerdictsCounted ==
    pc \in {"sub", "done"}
        => /\ qt_passed = SumOf(Counted(subs), "passed")
           /\ qt_failed = SumOf(Counted(subs), "failed")

\* Advanced_Query_With_Aggregation failed one query and passed another, and
\* test_once ended with both counters of Query_Tests at 0
AggregationVerdictsDropped ==
    /\ pc = "done"
    /\ subs[1].passed = 1
    /\ subs[1].failed = 1
    /\ Verified = 2
    /\ qt_passed = 0
    /\ qt_failed = 0

----------------------------------------------------------------------------
(* C27: what remove_empty_dps takes out of the reference response *)

\* a series whose dps is empty
EmptySeries(d) ==
    /\ d.k = "dict"
    /\ has_key(d, "dps")
    /\ LenIsZero(d.v["dps"])

\* an element of the shape of a series: a mapping with a dps entry
SeriesShaped(d) == d.k = "dict" /\ has_key(d, "dps")

\* the reference response is not a list, or has an element of another shape
OtherShape(t) ==
    \/ t.k # "list"
    \/ \E i \in 1 .. Len(t.v) : ~SeriesShaped(t.v[i])

\* C27: remove_empty_dps returns the elements of the reference response in
\* their original order with exactly the series whose dps is empty removed;
\* an element of another shape and a reference response that is not a list
\* are never reduced to an empty result that then matches an empty actual
\* response.
C27_RemovesOnlyEmptySeries ==
    pc = "done"
        => /\ expected.k = "list"
                => expected2 = PyList(SelectSeq(expected.v, LAMBDA d : ~EmptySeries(d)))
           /\ OtherShape(expected)
                => ~(expected2 = PyList(<<>>) /\ actual = PyList(<<>>) /\ result)

\* what does hold: of a list of series exactly the empty ones are removed,
\* and whatever is returned is elements of the reference list with a dps
\* that is not empty, in their original order
RemovesEmptySeriesOfSeriesLists ==
    pc = "done"
        => /\ ~OtherShape(expected)
                => expected2 = PyList(SelectSeq(expected.v, LAMBDA d : ~EmptySeries(d)))
           /\ \A i \in 1 .. Len(expected2.v) :
                SeriesShaped(expected2.v[i]) /\ ~EmptySeries(expected2.v[i])

\* a reference response that is no list at all passed against []
NonListPassed ==
    /\ pc = "done"
    /\ expected.k = "dict"
    /\ expected2 = PyList(<<>>)
    /\ actual = PyList(<<>>)
    /\ result
    /\ passed = 1

----------------------------------------------------------------------------
(* C28: what the two renderings of a Query ask the server for *)

\* the text s up to its first piece p, and from that piece on
RECURSIVE Before(_, _)
Before(s, p) ==
    IF s = <<>> \/ Head(s) = p THEN <<>> ELSE <<Head(s)>> \o Before(Tail(s), p)

From(s, p) == SubSeq(s, Len(Before(s, p)) + 1, Len(s))

\* the segments of the text s between its colons
RECURSIVE Segments(_)
Segments(s) ==
    IF Len(Before(s, ":")) = Len(s)
    THEN <<s>>
    ELSE <<Before(s, ":")>> \o Segments(Tail(From(s, ":")))

\* a segment of m that asks for a rate: rate or rate{...}
RateSegment(seg) == seg # <<>> /\ Head(seg) = "rate"

\* the query the body of to_json describes; a part that is absent is empty
JsonCarries ==
    LET q == JsonSubQuery
    IN  [start      |-> json_out.v.start,
         end        |-> json_out.v.end,
         metric     |-> q.v.metric.v,
         aggregator |-> IF has_key(q, "aggregator") THEN q.v.aggregator.v ELSE <<>>,
         downsample |-> IF has_key(q, "downsample") THEN q.v.downsample.v ELSE <<>>,
         tags       |-> IF has_key(q, "tags")
                        THEN <<"{">> \o BareTags(q.v.tags.v, keys(q.v.tags.v)) \o <<"}">>
                        ELSE <<>>,
         rate       |-> has_key(q, "rate")]

\* the query the parameters of to_params describe, m read as
\* <agg>:[rate[{...}]:][<downsampler>:]<metric>[{<tags>}]
ParamsCarries ==
    LET segs == Segments(Before(params_out.m, "{"))
        plain == SelectSeq(segs, LAMBDA seg : ~RateSegment(seg))
    IN  [start      |-> params_out.start,
         end        |-> params_out.end,
         metric     |-> plain[Len(plain)],
         aggregator |-> plain[1],
         downsample |-> IF Len(plain) = 3 THEN plain[2] ELSE <<>>,
         tags       |-> From(params_out.m, "{"),
         rate       |-> \E i \in DOMAIN segs : RateSegment(segs[i])]

BothRendered == json_out # PyNone /\ params_out # PyNone

\* C28: for every Query, to_params and to_json carry the same start, end,
\* metric, tag filter, aggregator, downsampler and rate transform, so a
\* Query built with rate_options requests a rate conversion in both forms.
C28_SameQueryInBothForms ==
    BothRendered
        => /\ JsonCarries = ParamsCarries
           /\ Truthy(args.rate_options) => (JsonCarries.rate /\ ParamsCarries.rate)

\* what the two forms do agree on: start, end, metric and downsampler
\* always, and the aggregator unless it is "raw"
FormsAgreeOnTheRest ==
    BothRendered
        => /\ JsonCarries.start = ParamsCarries.start
           /\ JsonCarries.end = ParamsCarries.end
           /\ JsonCarries.metric = ParamsCarries.metric
           /\ JsonCarries.downsample = ParamsCarries.downsample
           /\ query.aggregator # PyStr(<<"raw">>)
                => JsonCarries.aggregator = ParamsCarries.aggregator
           /\ ~ParamsCarries.rate

\* a rate query with no tags: the two forms differ in the rate alone
RateOnlyInJson ==
    /\ BothRendered
    /\ Truthy(args.rate_options)
    /\ args.tags = PyNone
    /\ args.aggregator = PyStr(<<"avg">>)
    /\ JsonCarries.rate
    /\ ~ParamsCarries.rate
    /\ [JsonCarries EXCEPT !.rate = FALSE] = ParamsCarries

----------------------------------------------------------------------------
(* src/tools/prom_scraper.py: Scraper.scrape_loop, Scraper.scrape and       *)
(* TickTock.send.  A scraped text is a sequence of lines; a line is a       *)
(* record: kind "type" is a "# TYPE <metric> <mtype>" line, "comment" any   *)
(* other line beginning with "#", "sample" a line the pattern of line 127   *)
(* matches, with its three groups as metric, labels and value, and          *)
(* "unmatched" a line it does not match (a blank line, a value of NaN).     *)
(* A metric name is a sequence of pieces, a suffix like _sum being the      *)
(* last piece; a label set is a set of (key, value text) pairs; a python    *)
(* dictionary is the set of its (key, value) pairs.  Sample values are      *)
(* whole numbers and a quotient is kept as the pair (dividend, divisor).    *)

MaxScrapes == 2     \* passes of scrape_loop over the targets
MaxLabelSets == 2   \* series of the one summary metric in a scraped text

\* job.get_targets()
Targets == << <<"h1", ":", "9100">>, <<"h2", ":", "9100">> >>

\* key in d, d[key], d[key] = v and d.pop(key, None)
has(d, key) == \E e \in d : e[1] = key
get(d, key) == (CHOOSE e \in d : e[1] = key)[2]
set_item(d, key, v) == {e \in d : e[1] # key} \cup {<<key, v>>}
pop(d, key) == {e \in d : e[1] # key}

TypeLine(name, mtype) ==
    [kind |-> "type", metric |-> name, mtype |-> mtype, labels |-> {}, value |-> 0]
CommentLine ==
    [kind |-> "comment", metric |-> <<>>, mtype |-> "", labels |-> {}, value |-> 0]
SampleLine(metric, labels, v) ==
    [kind |-> "sample", metric |-> metric, mtype |-> "", labels |-> labels, value |-> v]
UnmatchedLine ==
    [kind |-> "unmatched", metric |-> <<>>, mtype |-> "", labels |-> {}, value |-> 0]

\* self._pattern.search(line) returns a match object, not None
pattern_search(line) == line.kind = "sample"

\* metric.endswith(suffix) and metric[:-len(suffix)]
endswith(metric, suffix) == Len(metric) > 0 /\ metric[Len(metric)] = suffix
stem(metric) == SubSeq(metric, 1, Len(metric) - 1)

\* parse_key_value_pairs: the pairs with a value that is not empty
parse_key_value_pairs(labels) == {kv \in labels : kv[2] # <<>>}

\* lines 190-195: the put of one sample
PutLine(metric, ts, value, host, labels) ==
    [metric |-> metric, ts |-> ts, value |-> value, host |-> host,
     labels |-> {<<kv[1], replace(replace(replace(kv[2], " ", <<"_">>),
                                          "=", <<"_">>), ";", <<"_">>)>> :
                    kv \in parse_key_value_pairs(labels)}]

\* the body of the loop of send for one line; st is the state of the call:
\* the three collections of the TickTock object, the puts so far, the lines
\* reported, and whether an exception has left the call
SendLine(st, line, ts, host) ==
    LET met == stem(line.metric)
        emit(metric, value) ==
            [st EXCEPT !.puts = Append(st.puts,
                                       PutLine(metric, ts, value, host, line.labels))]
    IN  CASE line.kind \in {"type", "comment"} ->
                IF line.kind = "type" /\ line.mtype \in {"histogram", "summary"}
                THEN [st EXCEPT !.histo = st.histo \cup {line.metric}]
                ELSE st
          [] ~pattern_search(line) ->
                \* line 149: m is None and m.group(0) raises AttributeError;
                \* line 150 would need a match without a group 0
                [st EXCEPT !.raised = TRUE]
          [] endswith(line.metric, "_sum") /\ met \in st.histo ->
                IF has(st.count, met)
                THEN LET cnt == get(st.count, met)
                         st2 == [st EXCEPT !.count = pop(st.count, met)]
                     IN  IF cnt > 0
                         THEN [st2 EXCEPT !.puts = emit(met, <<line.value, cnt>>).puts]
                         ELSE st2
                ELSE [st EXCEPT !.sum = set_item(st.sum, met, line.value)]
          [] endswith(line.metric, "_count") /\ met \in st.histo ->
                IF has(st.sum, met)
                THEN LET s == get(st.sum, met)
                         st2 == [st EXCEPT !.sum = pop(st.sum, met)]
                     IN  IF line.value > 0
                         THEN [st2 EXCEPT !.puts = emit(met, <<s, line.value>>).puts]
                         ELSE st2
                ELSE [st EXCEPT !.count = set_item(st.count, met, line.value)]
          [] endswith(line.metric, "_bucket") /\ met \in st.histo -> st
          [] endswith(line.metric, "_info") -> st
          [] OTHER -> emit(line.metric, <<line.value, 1>>)

\* the loop of lines 141-195 over the lines left
RECURSIVE SendLines(_, _, _, _)
SendLines(st, lines, ts, host) ==
    IF lines = <<>> \/ st.raised
    THEN st
    ELSE SendLines(SendLine(st, Head(lines), ts, host), Tail(lines), ts, host)

\* TickTock.send(ts, target, msgs)
send(ts, tgt, msgs) ==
    SendLines([histo |-> histo_sum, sum |-> sum_, count |-> count_,
               puts |-> <<>>, reported |-> 0, raised |-> FALSE],
              msgs, ts, Before(tgt, ":"))

\* the label sets of the series of a scraped text
LabelSet(l) == {<<"path", <<"p", ToString(l)>>>>, <<"code", <<"2", " ", "0">>>>}

\* the _sum and _count samples of series l of target t in pass n
SumValue(l, t, n) == 1000 * n + 100 * t + 10 * l
CountValue(l, t, n) == SumValue(l, t, n) + 1

SummaryLines(t, n) ==
    UNION {{SampleLine(<<"lat", "_sum">>, LabelSet(l), SumValue(l, t, n)),
            SampleLine(<<"lat", "_count">>, LabelSet(l), CountValue(l, t, n))} :
                l \in 1 .. MaxLabelSets}

PlainLines(t, n) ==
    {SampleLine(<<"up">>, {}, 1), SampleLine(<<"load">>, LabelSet(1), n),
     UnmatchedLine}

\* the lines of S one after the other, in every order
Orders(S) ==
    {f \in [1 .. Cardinality(S) -> S] : \A i, j \in DOMAIN f : f[i] = f[j] => i = j}

\* what target t may answer in pass n: a summary with its series' lines in
\* any order, or plain samples with a line the pattern does not match
Texts(t, n) ==
    {<<TypeLine(<<"lat">>, "summary")>> \o f : f \in Orders(SummaryLines(t, n))}
        \cup Orders(PlainLines(t, n))
        \cup {<<CommentLine, SampleLine(<<"up">>, {}, 1)>>}

\* scrape_loop is entered: the TickTock object is new and connected
InitScraper ==
    /\ ComparatorIdle
    /\ RunnerIdle
    /\ GeneratorIdle
    /\ SuitesIdle
    /\ QueryIdle
    /\ WorkersIdle
    /\ QueryTestsIdle
    /\ sc_pc = "loop"
    /\ scrape_now = 1
    /\ target = 1
    /\ histo_sum = {}
    /\ sum_ = {}
    /\ count_ = {}
    /\ text = <<>>
    /\ sent = <<>>
    /\ unrecognized = 0

\* one round of the loop of Scraper.scrape: the target is asked and its
\* answer given to send; an exception of send is caught nowhere
ScrapeTarget ==
    /\ sc_pc = "loop"
    /\ scrape_now <= MaxScrapes
    /\ \E msgs \in Texts(target, scrape_now) :
        LET r == send(scrape_now, Targets[target], msgs)
        IN  /\ text' = msgs
            /\ histo_sum' = r.histo
            /\ sum_' = r.sum
            /\ count_' = r.count
            /\ unrecognized' = r.reported
            /\ sent' = IF r.raised THEN <<>> ELSE r.puts
            /\ sc_pc' = IF r.raised THEN "crashed" ELSE "loop"
    /\ target' = IF target < Len(Targets) THEN target + 1 ELSE 1
    /\ scrape_now' = IF target < Len(Targets) THEN scrape_now ELSE scrape_now + 1
    /\ UNCHANGED <<cmp_vars, run_vars, gen_vars, suite_vars, query_vars, mt_vars, qt_vars>>

\* SIGINT: stop_requested is seen between two jobs and the socket closed
StopRequested ==
    /\ sc_pc = "loop"
    /\ target = 1
    /\ sc_pc' = "stopped"
    /\ UNCHANGED <<scrape_now, target, histo_sum, sum_, count_, text, sent, unrecognized>>
    /\ UNCHANGED <<cmp_vars, run_vars, gen_vars, suite_vars, query_vars, mt_vars, qt_vars>>

NextScraper == ScrapeTarget \/ StopRequested

SpecScraper == InitScraper /\ [][NextScraper]_vars

\* the lines of the last text the pattern does not match
UnmatchedIn(msgs) == {i \in DOMAIN msgs : msgs[i].kind = "unmatched"}

\* line i of the last text is a sample sent as it is
PlainSample(i) == text[i].kind = "sample" /\ text[i].metric \in {<<"up">>, <<"load">>}

\* C29: send skips a scraped line that does not match the metric pattern,
\* reporting it as unrecognized, and still converts and sends every later
\* line of the same scrape; such a line never aborts send or the scrape loop.
C29_SkipsUnmatchedLines ==
    /\ sc_pc # "crashed"
    /\ unrecognized = Cardinality(UnmatchedIn(text))
    /\ \A i \in DOMAIN text :
        PlainSample(i)
            => \E n \in DOMAIN sent :
                  /\ sent[n].metric = text[i].metric
                  /\ sent[n].value = <<text[i].value, 1>>

\* what send does with a line the pattern does not match: it is left by an
\* exception that ends the scraper, nothing of the text is sent and nothing
\* is reported
UnmatchedLineEndsScraper ==
    /\ sc_pc = "crashed" <=> UnmatchedIn(text) # {}
    /\ sc_pc = "crashed" => sent = <<>>
    /\ unrecognized = 0

\* the scraper ended on a text whose first line was a sample
CrashedAfterSample ==
    /\ sc_pc = "crashed"
    /\ text[1].kind = "sample"
    /\ text[2].kind = "unmatched"
    /\ text[3].kind = "sample"
    /\ sent = <<>>

\* the puts of the last send that are averages of the summary metric
Averages == {n \in DOMAIN sent : sent[n].metric \in histo_sum}

\* the labels send writes for series l
SentLabels(l) == PutLine(<<"lat">>, 0, <<0, 1>>, <<>>, LabelSet(l)).labels

\* C30: every average send emits for a summary or histogram metric is the
\* _sum of one series divided by the _count of that same series (same label
\* set, same target, same scrape), whatever the order of the _sum and
\* _count lines and however many label sets, targets and scrapes there are.
C30_AverageOfOneSeries ==
    \A a \in Averages :
        \E l \in 1 .. MaxLabelSets, t \in DOMAIN Targets, n \in 1 .. MaxScrapes :
            /\ sent[a].value = <<SumValue(l, t, n), CountValue(l, t, n)>>
            /\ sent[a].labels = SentLabels(l)
            /\ sent[a].host = Before(Targets[t], ":")
            /\ sent[a].ts = n

\* what an average always is: a _sum value that was scraped over a _count
\* value that was scraped, of whatever series
AverageOfSomeSumAndCount ==
    \A a \in Averages :
        /\ \E l \in 1 .. MaxLabelSets, t \in DOMAIN Targets, n \in 1 .. MaxScrapes :
                sent[a].value[1] = SumValue(l, t, n)
        /\ \E l \in 1 .. MaxLabelSets, t \in DOMAIN Targets, n \in 1 .. MaxScrapes :
                sent[a].value[2] = CountValue(l, t, n)

\* both _sum lines came before both _count lines: one average is the second
\* series' sum over the first series' count, and the second count is kept
\* for the next text
MixedSeriesAverage ==
    /\ Len(sent) = 1
    /\ sent[1].metric = <<"lat">>
    /\ sent[1].value = <<SumValue(2, 1, 1), CountValue(1, 1, 1)>>
    /\ count_ = {<<<<"lat">>, CountValue(2, 1, 1)>>}

====
